---------------------------- MODULE Spec2Model ----------------------------
(***************************************************************************)
(* Model of the transcript processor of piazza-bot (src/processor):        *)
(* ParseSRT, ExtractSentencesFromFrames, embedBatches / EmbedSentences /   *)
(* EmbedChunks, ExtractChunksFromSentences and the process driver.         *)
(* The watcher of the crawler (src/crawler/watcher) is modelled too:       *)
(* AddLecture on Redis as runParsers calls it, and updateParsers.          *)
(*                                                                         *)
(* Strings are sequences of atoms.  An atom is one character (" ", "\n",   *)
(* "-", ">", ".", a digit) or an opaque run of non-blank, non-digit        *)
(* characters (a word such as "A", a timestamp such as "T1").              *)
(*                                                                         *)
(* float32 values are held as exact rationals: a similarity is an integer  *)
(* multiple of 1/SimScale, a DP score an integer multiple of 1/Den(..).    *)
(* Rounding of float32 arithmetic is not modelled.                         *)
(***************************************************************************)
EXTENDS Integers, Sequences, FiniteSets, TLC

VARIABLES
    pc,             \* position of the operation in progress
    transcriptText, \* transcript.TranscriptText fetched by process
    frames,         \* []Frame returned by ParseSRT
    sentences,      \* []*Sentence of the job
    cfg,            \* ChunkingConfig used by ExtractChunksFromSentences
    chunks,         \* []*Chunk returned by ExtractChunksFromSentences
    chunkErr,       \* error returned by ExtractChunksFromSentences
    dp,             \* dp[] after the DP loop, a function on 0..n
    start,          \* start[] after the DP loop, a function on 0..n
    emConfig,       \* em.config (EmbeddingConfig)
    embedFor,       \* which caller runs embedBatches: "sentences" / "chunks"
    texts,          \* embedBatches: texts
    tokenLengths,   \* embedBatches: tokenLengths
    i,              \* embedBatches: loop index i
    batches,        \* embedBatches: the batches handed to embedBatch so far
    allEmbeddings,  \* embedBatches: allEmbeddings
    rows,           \* rows handed to InsertEmbedding that were stored, in order
    procErr,        \* error returned by process ("" = nil)
    attempts,       \* process: the loop indexes i at which InsertEmbedding ran
    table,          \* the embeddings table of the store
    srtBlocks,      \* the subtitle blocks the transcript text was written from
    run,            \* main: run
    sigchan,        \* main: sigchan, a channel of capacity 1
    sigAt,          \* where main was when the signal was delivered ("" = not yet)
    bus,            \* the messages of the topic, in offset order
    position,       \* consumer: offset of the next message Poll returns
    committed,      \* consumer group: committed offset
    handled,        \* main: the messages handled so far and how each ended
    seen,           \* Redis: the members of the seen set
    queue,          \* Redis: the elements of the queue list, head first
    lectures,       \* runParsers, per watcher: the lectures its parsers return
    lectureIdx,     \* runParsers, per watcher: index of the lecture in hand
    watcherPc,      \* per watcher: the Redis command AddLecture issues next
    calls,          \* the AddLecture calls that returned, in order
    parsersDir,     \* the parsers directory of the watcher
    parsersTable,   \* the rows of the parsers table of the store
    lastUpdate      \* what the last call of updateParsers met

\* the state of the transcript processor
processorVars ==
    <<pc, transcriptText, frames, sentences, cfg, chunks, chunkErr, dp,
      start, emConfig, embedFor, texts, tokenLengths, i, batches,
      allEmbeddings, rows, procErr, attempts, table, srtBlocks, run,
      sigchan, sigAt, bus, position, committed, handled>>

\* the state of the watcher (src/crawler/watcher), of Redis and of the
\* parsers table
crawlerVars ==
    <<seen, queue, lectures, lectureIdx, watcherPc, calls, parsersDir,
      parsersTable, lastUpdate>>

vars == <<processorVars, crawlerVars>>

\* the state of main's poll loop and of the consumer
loopVars == <<run, sigchan, sigAt, bus, position, committed, handled>>

-----------------------------------------------------------------------------
(* Bounds of the model *)

MaxLines == 4

MaxSentences == 4

MaxTexts == 3

MaxMessages == 2

MaxBlocks == 2

MaxLectures == 2

-----------------------------------------------------------------------------
(* Strings *)

Digits == {"0", "1", "2", "3", "4", "5", "6", "7", "8", "9"}

Space == {" ", "\t", "\r"}

Arrow == <<"-", "-", ">">>

Terminators == {".", "!", "?"}

RECURSIVE TrimLeft(_)
TrimLeft(s) ==
    IF s # <<>> /\ Head(s) \in Space THEN TrimLeft(Tail(s)) ELSE s

RECURSIVE TrimRight(_)
TrimRight(s) ==
    IF s # <<>> /\ s[Len(s)] \in Space
    THEN TrimRight(SubSeq(s, 1, Len(s) - 1)) ELSE s

\* strings.TrimSpace
TrimSpace(s) == TrimRight(TrimLeft(s))

\* does sub occur in s at position p (1-based)
MatchAt(s, sub, p) ==
    /\ p + Len(sub) - 1 <= Len(s)
    /\ SubSeq(s, p, p + Len(sub) - 1) = sub

\* strings.Index, 1-based from position p; 0 when absent
RECURSIVE IndexFrom(_, _, _)
IndexFrom(s, sub, p) ==
    IF p + Len(sub) - 1 > Len(s) THEN 0
    ELSE IF MatchAt(s, sub, p) THEN p
    ELSE IndexFrom(s, sub, p + 1)

\* strings.Contains
Contains(s, sub) == IndexFrom(s, sub, 1) # 0

\* strings.Split for a non-empty separator
RECURSIVE Split(_, _)
Split(s, sep) ==
    LET k == IndexFrom(s, sep, 1) IN
    IF k = 0 THEN <<s>>
    ELSE <<SubSeq(s, 1, k - 1)>> \o Split(SubSeq(s, k + Len(sep), Len(s)), sep)

\* strings.Join
RECURSIVE Join(_, _)
Join(parts, sep) ==
    IF parts = <<>> THEN <<>>
    ELSE IF Len(parts) = 1 THEN parts[1]
    ELSE parts[1] \o sep \o Join(Tail(parts), sep)

\* strings.HasSuffix for a one-character suffix
HasSuffix(s, c) == s # <<>> /\ s[Len(s)] = c

\* no line is taken for a sequence number
isDigitOnlyNever(s) == FALSE

\* checks if a string contains only digits
isDigitOnly(s) == (\A k \in 1..Len(s) : s[k] \in Digits) /\ Len(s) > 0

-----------------------------------------------------------------------------
(* SRT parsing *)

Frame(text, startTime, endTime) ==
    [Text |-> text, StartTime |-> startTime, EndTime |-> endTime]

\* one iteration of the loop over lines; st = [frames, currentStartTime,
\* currentEndTime]
ParseLine(st, rawLine) ==
    LET line == TrimSpace(rawLine) IN
    IF line = <<>> THEN st
    ELSE IF isDigitOnly(line) THEN st
    ELSE IF Contains(line, Arrow) THEN
        LET parts == Split(line, Arrow) IN
        IF Len(parts) = 2
        THEN [st EXCEPT !.currentStartTime = TrimSpace(parts[1]),
                        !.currentEndTime = TrimSpace(parts[2])]
        ELSE st
    ELSE [st EXCEPT !.frames =
            Append(@, Frame(line, st.currentStartTime, st.currentEndTime))]

RECURSIVE ParseLines(_, _)
ParseLines(st, lines) ==
    IF lines = <<>> THEN st
    ELSE ParseLines(ParseLine(st, Head(lines)), Tail(lines))

ParseSRT(text) ==
    IF text = <<>> THEN <<>>
    ELSE ParseLines([frames |-> <<>>, currentStartTime |-> <<>>,
                     currentEndTime |-> <<>>],
                    Split(text, <<"\n">>)).frames

-----------------------------------------------------------------------------
(* Tokenizer and sentence assembly *)

\* tokens the tokenizer produces for one atom
AtomTokens(a) ==
    CASE a = "A" -> 300
      [] a = "B" -> 100
      [] a = "C" -> 100
      [] a \in Space -> 0
      [] OTHER -> 1

RECURSIVE CountTokens(_)
CountTokens(text) ==
    IF text = <<>> THEN 0
    ELSE AtomTokens(Head(text)) + CountTokens(Tail(text))

Nil == <<>>

Sentence(text, startTime, embedding, tokenCount) ==
    [Text |-> text, StartTime |-> startTime, Embedding |-> embedding,
     TokenCount |-> tokenCount]

\* the start time a sentence keeps when a frame is added to it
AnchorLatest(isFirstFrame, currentStartTime, frame) == frame.StartTime

AnchorStartTime(isFirstFrame, currentStartTime, frame) ==
    IF isFirstFrame THEN frame.StartTime ELSE currentStartTime

\* only a full stop ends a sentence
EndsWithFullStop(frameText) == HasSuffix(TrimSpace(frameText), ".")

EndsSentence(frameText) ==
    LET trimmed == TrimSpace(frameText) IN
    \E c \in Terminators : HasSuffix(trimmed, c)

\* one iteration of the loop over frames; st = [sentences,
\* currentSentenceText, currentStartTime, isFirstFrame]
AssembleFrame(st, frame) ==
    LET startTime == AnchorStartTime(st.isFirstFrame, st.currentStartTime, frame)
        text == (IF Len(st.currentSentenceText) > 0
                 THEN st.currentSentenceText \o <<" ">>
                 ELSE st.currentSentenceText) \o frame.Text
    IN  IF EndsSentence(frame.Text)
        THEN [sentences |-> Append(st.sentences,
                  Sentence(text, startTime, Nil, CountTokens(text))),
              currentSentenceText |-> <<>>,
              currentStartTime |-> startTime,
              isFirstFrame |-> TRUE]
        ELSE [sentences |-> st.sentences,
              currentSentenceText |-> text,
              currentStartTime |-> startTime,
              isFirstFrame |-> FALSE]

RECURSIVE AssembleFrames(_, _)
AssembleFrames(st, fs) ==
    IF fs = <<>> THEN st
    ELSE AssembleFrames(AssembleFrame(st, Head(fs)), Tail(fs))

ExtractSentencesFromFrames(fs) ==
    IF Len(fs) = 0 THEN <<>>
    ELSE LET st == AssembleFrames([sentences |-> <<>>,
                                   currentSentenceText |-> <<>>,
                                   currentStartTime |-> <<>>,
                                   isFirstFrame |-> TRUE], fs)
         IN  IF Len(st.currentSentenceText) > 0
             THEN Append(st.sentences,
                      Sentence(st.currentSentenceText, st.currentStartTime,
                               Nil, CountTokens(st.currentSentenceText)))
             ELSE st.sentences

-----------------------------------------------------------------------------
(* Chunking: ComputePenalty, SegmentReward, CosineSimilarity *)

\* Go slices are 0-based: sentences[k] of the source is At(sentences, k)
At(seq, k) == seq[k + 1]

\* float32(math.Inf(-1)): below every score the DP can produce
NegInf == -1000000000

\* similarities are integer multiples of 1/SimScale
SimScale == 5 * 5

\* denominator of a size penalty: MaxSize - OptimalSize
PenDen(c) == c.MaxSize - c.OptimalSize

\* is the segment legal at exactly MaxSize tokens: no
TooLargeAtMax(tokenCount, maxSize) == tokenCount >= maxSize

TooLarge(tokenCount, maxSize) == tokenCount > maxSize

\* the penalty is LambdaSize for every total over OptimalSize
ComputePenaltyFlat(c, lo, hi, prefixTokens) ==
    LET tokenCount == prefixTokens[hi] - prefixTokens[lo] IN
    IF TooLarge(tokenCount, c.MaxSize) THEN [penalty |-> 0, legal |-> FALSE]
    ELSE IF tokenCount <= c.OptimalSize THEN [penalty |-> 0, legal |-> TRUE]
    ELSE [penalty |-> c.LambdaSize * PenDen(c), legal |-> TRUE]

\* penalty is the numerator of a fraction over PenDen(c)
ComputePenalty(c, lo, hi, prefixTokens) ==
    LET tokenCount == prefixTokens[hi] - prefixTokens[lo] IN
    IF TooLarge(tokenCount, c.MaxSize) THEN [penalty |-> 0, legal |-> FALSE]
    ELSE IF tokenCount <= c.OptimalSize THEN [penalty |-> 0, legal |-> TRUE]
    ELSE [penalty |-> c.LambdaSize * (tokenCount - c.OptimalSize),
          legal |-> TRUE]

\* the reward takes in the similarity across the right boundary
SegmentRewardAcross(lo, hi, prefixSim) ==
    IF hi - lo <= 1 THEN 0
    ELSE prefixSim[hi] - prefixSim[lo]

\* the reward is the numerator of a fraction over the similarity denominator
SegmentReward(lo, hi, prefixSim) ==
    IF hi - lo <= 1 THEN 0
    ELSE prefixSim[hi - 1] - prefixSim[lo]

RECURSIVE Dot(_, _)
Dot(a, b) ==
    IF a = <<>> THEN 0 ELSE Head(a) * Head(b) + Dot(Tail(a), Tail(b))

\* math.Sqrt on the squared norms the model uses (perfect squares)
Sqrt(x) == CHOOSE r \in 0..x : r * r <= x /\ (r + 1) * (r + 1) > x

\* the error result is dropped by the caller, so only the value is kept
CosineSimilarity(a, b) ==
    IF Len(a) # Len(b) \/ Len(a) = 0 THEN 0
    ELSE LET dotProduct == Dot(a, b)
             normA == Dot(a, a)
             normB == Dot(b, b)
         IN  IF normA = 0 \/ normB = 0 THEN 0
             ELSE (dotProduct * SimScale) \div (Sqrt(normA) * Sqrt(normB))

-----------------------------------------------------------------------------
(* Chunking: similarities, prefix sums *)

\* sim[k] for k in 0..n-2, before normalization
RawSim(ss) ==
    [k \in 0..(Len(ss) - 2) |->
        CosineSimilarity(At(ss, k).Embedding, At(ss, k + 1).Embedding)]

SetMin(S) == CHOOSE x \in S : \A y \in S : x <= y

SetMax(S) == CHOOSE x \in S : \A y \in S : x >= y

Range(f) == {f[k] : k \in DOMAIN f}

\* simRange; 0 when every similarity is the same
SimRange(sim) == SetMax(Range(sim)) - SetMin(Range(sim))

\* denominator of the normalized similarities: simRange, or 2 for 0.5
SimDen(sim) == IF SimRange(sim) = 0 THEN 2 ELSE SimRange(sim)

\* the normalization divides by the range without taking the minimum off
NormalizeNoShift(sim) ==
    IF SimRange(sim) = 0 THEN [k \in DOMAIN sim |-> 1]
    ELSE [k \in DOMAIN sim |-> sim[k]]

\* the normalization measures from the largest similarity down
NormalizeInverted(sim) ==
    IF SimRange(sim) = 0 THEN [k \in DOMAIN sim |-> 1]
    ELSE [k \in DOMAIN sim |-> SetMax(Range(sim)) - sim[k]]

\* numerators of the normalized similarities over SimDen(sim)
Normalize(sim) ==
    IF SimRange(sim) = 0 THEN [k \in DOMAIN sim |-> 1]
    ELSE [k \in DOMAIN sim |-> sim[k] - SetMin(Range(sim))]

RECURSIVE SumTo(_, _)
SumTo(f, k) == IF k < 0 THEN 0 ELSE f[k] + SumTo(f, k - 1)

\* prefixSim[0] = 0, prefixSim[k+1] = prefixSim[k] + sim[k],
\* prefixSim[n] = prefixSim[n-1]
PrefixSim(sim, n) ==
    [k \in 0..n |-> IF k = n THEN SumTo(sim, n - 2) ELSE SumTo(sim, k - 1)]

RECURSIVE TokenSum(_, _)
TokenSum(ss, k) ==
    IF k <= 0 THEN 0 ELSE TokenSum(ss, k - 1) + At(ss, k - 1).TokenCount

PrefixTokens(ss) == [k \in 0..Len(ss) |-> TokenSum(ss, k)]

-----------------------------------------------------------------------------
(* Chunking: the DP and the reconstruction *)

\* every chunk adds ChunkPenalty to the score
ScoreRewardsCuts(c, simDen, dpi, reward, penalty) ==
    dpi + reward * PenDen(c) - penalty * simDen
        + c.ChunkPenalty * simDen * PenDen(c)

\* the score forgets the best score of the prefix
ScoreNoPrefix(c, simDen, dpi, reward, penalty) ==
    reward * PenDen(c) - penalty * simDen - c.ChunkPenalty * simDen * PenDen(c)

\* score := dp[i] + reward - penalty - cfg.ChunkPenalty, in units of
\* 1 / (simDen * PenDen(c))
Score(c, simDen, dpi, reward, penalty) ==
    dpi + reward * PenDen(c) - penalty * simDen
        - c.ChunkPenalty * simDen * PenDen(c)

\* a score equal to the best so far replaces it too
ImprovesOrTies(score, best) == score >= best

\* if score > dp[j]
Improves(score, best) == score > best

\* the inner loop, for lo = k, k+1, ..., hi-1; t = [dp, start]
RECURSIVE InnerLoop(_, _, _, _, _, _, _)
InnerLoop(c, simDen, prefixTokens, prefixSim, t, hi, k) ==
    IF k >= hi THEN t
    ELSE IF t.dp[k] = NegInf
    THEN InnerLoop(c, simDen, prefixTokens, prefixSim, t, hi, k + 1)
    ELSE LET p == ComputePenalty(c, k, hi, prefixTokens) IN
         IF ~p.legal
         THEN InnerLoop(c, simDen, prefixTokens, prefixSim, t, hi, k + 1)
         ELSE LET reward == SegmentReward(k, hi, prefixSim)
                  score == Score(c, simDen, t.dp[k], reward, p.penalty)
              IN  IF Improves(score, t.dp[hi])
                  THEN InnerLoop(c, simDen, prefixTokens, prefixSim,
                           [dp |-> [t.dp EXCEPT ![hi] = score],
                            start |-> [t.start EXCEPT ![hi] = k]],
                           hi, k + 1)
                  ELSE InnerLoop(c, simDen, prefixTokens, prefixSim, t, hi,
                                 k + 1)

\* the outer loop, for j = hi, hi+1, ..., n
RECURSIVE OuterLoop(_, _, _, _, _, _, _)
OuterLoop(c, simDen, prefixTokens, prefixSim, t, n, hi) ==
    IF hi > n THEN t
    ELSE OuterLoop(c, simDen, prefixTokens, prefixSim,
             InnerLoop(c, simDen, prefixTokens, prefixSim,
                 [dp |-> [t.dp EXCEPT ![hi] = NegInf], start |-> t.start],
                 hi, 0),
             n, hi + 1)

\* dp[0] = 0, start[0] = 0, start[1..n] = -1, then the two loops
RunDP(c, ss) ==
    LET n == Len(ss)
        sim == Normalize(RawSim(ss))
    IN  OuterLoop(c, SimDen(RawSim(ss)), PrefixTokens(ss), PrefixSim(sim, n),
            [dp |-> [k \in 0..n |-> 0],
             start |-> [k \in 0..n |-> IF k = 0 THEN 0 ELSE -1]],
            n, 1)

Chunk(startTime, num, embs, chunkIndex, tokenCount, text, embedding) ==
    [StartTime |-> startTime, NumSentences |-> num,
     SentenceEmbeddings |-> embs, ChunkIndex |-> chunkIndex,
     TokenCount |-> tokenCount, Text |-> text, Embedding |-> embedding]

RECURSIVE SeqTokenSum(_)
SeqTokenSum(ss) ==
    IF ss = <<>> THEN 0 ELSE Head(ss).TokenCount + SeqTokenSum(Tail(ss))

\* the chunk built from chunkSentences = sentences[prevPos:pos]
BuildChunk(chunkSentences, chunkIndex) ==
    Chunk(chunkSentences[1].StartTime,
          Len(chunkSentences),
          [k \in 1..Len(chunkSentences) |-> chunkSentences[k].Embedding],
          chunkIndex,
          SeqTokenSum(chunkSentences),
          Join([k \in 1..Len(chunkSentences) |-> chunkSentences[k].Text],
               <<" ">>),
          Nil)

\* the loop "for pos > 0": chunks are appended last chunk first
RECURSIVE Backtrack(_, _, _, _, _)
Backtrack(ss, startv, pos, chunkIndex, acc) ==
    IF pos <= 0 THEN acc
    ELSE LET prevPos == startv[pos] IN
         Backtrack(ss, startv, prevPos, chunkIndex + 1,
             Append(acc, BuildChunk(SubSeq(ss, prevPos + 1, pos), chunkIndex)))

\* the chunks are left in the order the backtrack built them
KeepOrder(cs) == cs

\* reverse chunks since they were built backwards
Reverse(cs) == [k \in 1..Len(cs) |-> cs[Len(cs) + 1 - k]]

\* the chunks keep the index the backtrack gave them
KeepIndex(cs) == cs

\* re-index chunks
ReIndex(cs) == [k \in 1..Len(cs) |-> [cs[k] EXCEPT !.ChunkIndex = k - 1]]

NoErr == [kind |-> "nil", idx |-> -1]

Err(kind, idx) == [kind |-> kind, idx |-> idx]

EmptyTable == [dp |-> <<>>, start |-> <<>>]

\* result of ExtractChunksFromSentences: [chunks, err] and, for the claims
\* about them, the dp and start arrays as the DP loop left them
ExtractChunksFromSentences(c, ss) ==
    LET n == Len(ss)
        big == {k \in 0..(n - 1) : At(ss, k).TokenCount > c.MaxSize}
        missing == {k \in 0..(n - 1) : At(ss, k).Embedding = Nil}
    IN
    IF n = 0 THEN [chunks |-> <<>>, err |-> NoErr, table |-> EmptyTable]
    ELSE IF n = 1 THEN
        [chunks |-> <<Chunk(ss[1].StartTime, 1, <<ss[1].Embedding>>, 0,
                            ss[1].TokenCount, ss[1].Text, ss[1].Embedding)>>,
         err |-> NoErr, table |-> EmptyTable]
    ELSE IF big # {} THEN
        [chunks |-> <<>>, err |-> Err("TokenCount > MaxSize", SetMin(big)),
         table |-> EmptyTable]
    ELSE IF missing # {} THEN
        [chunks |-> <<>>, err |-> Err("Embedding is nil", SetMin(missing)),
         table |-> EmptyTable]
    ELSE LET t == RunDP(c, ss) IN
         IF t.dp[n] = NegInf \/ t.start[n] = -1
         THEN [chunks |-> <<>>, err |-> Err("DP failed", -1), table |-> t]
         ELSE [chunks |-> ReIndex(Reverse(Backtrack(ss, t.start, n, 0, <<>>))),
               err |-> NoErr, table |-> t]

-----------------------------------------------------------------------------
(* Embedding: the inference engine and the batch packing *)

DefaultEmbeddingConfig == [MaxBatchTokens |-> 6000]

DefaultChunkingConfig ==
    [OptimalSize |-> 470, MaxSize |-> 512, LambdaSize |-> 2, ChunkPenalty |-> 1]

Atoms(text) == {text[k] : k \in 1..Len(text)}

\* the CLS vector the model returns for a text: a fixed function of the text
Infer(text) ==
    IF "A" \in Atoms(text) /\ "B" \in Atoms(text) THEN <<3, 4>>
    ELSE IF "A" \in Atoms(text) THEN <<1, 0>>
    ELSE IF "B" \in Atoms(text) THEN <<0, 1>>
    ELSE <<4, 3>>

\* embedBatch on success: one vector per text of the batch, in order
embedBatch(batchTexts) == [k \in 1..Len(batchTexts) |-> Infer(batchTexts[k])]

\* the budget test applies to the first text of a batch too
BreaksBudgetEvenEmpty(size, newMaxSeqLen, budget) ==
    (size + 1) * newMaxSeqLen > budget

\* the budget test forgets the text being added
BreaksBudgetOldSize(size, newMaxSeqLen, budget) ==
    size > 0 /\ size * newMaxSeqLen > budget

\* len(batchTexts) > 0 && totalTokens > em.config.MaxBatchTokens
BreaksBudget(size, newMaxSeqLen, budget) ==
    size > 0 /\ (size + 1) * newMaxSeqLen > budget

Max(a, b) == IF a > b THEN a ELSE b

\* the inner loop of embedBatches; b = [batchTexts, maxSeqLen, i]
RECURSIVE PackBatch(_, _, _, _)
PackBatch(ts, lens, budget, b) ==
    IF b.i >= Len(ts) THEN b
    ELSE LET newMaxSeqLen == Max(b.maxSeqLen, At(lens, b.i)) IN
         IF BreaksBudget(Len(b.batchTexts), newMaxSeqLen, budget) THEN b
         ELSE PackBatch(ts, lens, budget,
                  [batchTexts |-> Append(b.batchTexts, At(ts, b.i)),
                   maxSeqLen |-> newMaxSeqLen,
                   i |-> b.i + 1])

\* the batch the outer loop builds when it starts at index k
NextBatch(ts, lens, budget, k) ==
    PackBatch(ts, lens, budget, [batchTexts |-> <<>>, maxSeqLen |-> 0, i |-> k])

\* the new vectors are put in front of the earlier ones
PrependEmbeddings(all, embeddings) == embeddings \o all

\* allEmbeddings = append(allEmbeddings, embeddings...)
AppendEmbeddings(all, embeddings) == all \o embeddings

\* for i, emb := range embeddings { items[i].Embedding = emb }
AssignEmbeddings(items, embeddings) ==
    [k \in 1..Len(items) |->
        IF k <= Len(embeddings)
        THEN [items[k] EXCEPT !.Embedding = embeddings[k]]
        ELSE items[k]]

Items == IF embedFor = "sentences" THEN sentences ELSE chunks

AfterEmbed == IF embedFor = "sentences" THEN "chunk" ELSE "insert"

EmbedFailure ==
    IF embedFor = "sentences" THEN "failed to embed sentences"
    ELSE "failed to embed chunks"

\* EmbedSentences / EmbedChunks up to the first iteration of embedBatches
EmbedStart ==
    /\ pc \in {"embedSentences", "embedChunks"}
    /\ LET who == IF pc = "embedSentences" THEN "sentences" ELSE "chunks"
           items == IF pc = "embedSentences" THEN sentences ELSE chunks
       IN  /\ embedFor' = who
           /\ IF Len(items) = 0
              THEN /\ pc' = (IF who = "sentences" THEN "chunk" ELSE "insert")
                   /\ UNCHANGED <<texts, tokenLengths, i, batches,
                                  allEmbeddings>>
              ELSE /\ pc' = "batch"
                   /\ texts' = [k \in 1..Len(items) |-> items[k].Text]
                   /\ tokenLengths' =
                          [k \in 1..Len(items) |-> items[k].TokenCount]
                   /\ i' = 0
                   /\ batches' = <<>>
                   /\ allEmbeddings' = <<>>
    /\ UNCHANGED <<transcriptText, frames, sentences, cfg, chunks, chunkErr,
                   dp, start, emConfig, rows, procErr>>
    /\ UNCHANGED <<attempts, table, srtBlocks, loopVars>>
    /\ UNCHANGED crawlerVars

\* one iteration of the outer loop of embedBatches whose embedBatch succeeds
BatchOk ==
    /\ pc = "batch"
    /\ i < Len(texts)
    /\ \E b \in {NextBatch(texts, tokenLengths, emConfig.MaxBatchTokens, i)} :
         /\ batches' = Append(batches,
                [lo |-> i, hi |-> b.i, texts |-> b.batchTexts,
                 maxSeqLen |-> b.maxSeqLen])
         /\ allEmbeddings' =
                AppendEmbeddings(allEmbeddings, embedBatch(b.batchTexts))
         /\ i' = b.i
    /\ UNCHANGED <<pc, transcriptText, frames, sentences, cfg, chunks,
                   chunkErr, dp, start, emConfig, embedFor, texts,
                   tokenLengths, rows, procErr>>
    /\ UNCHANGED <<attempts, table, srtBlocks, loopVars>>
    /\ UNCHANGED crawlerVars

\* the failing call hands the vectors of the batches already done to the
\* items before it returns the error
BatchFailAssignsDone ==
    /\ pc = "batch"
    /\ i < Len(texts)
    /\ \E b \in {NextBatch(texts, tokenLengths, emConfig.MaxBatchTokens, i)} :
         /\ batches' = Append(batches,
                [lo |-> i, hi |-> b.i, texts |-> b.batchTexts,
                 maxSeqLen |-> b.maxSeqLen])
         /\ i' = b.i
    /\ allEmbeddings' = <<>>
    /\ pc' = "done"
    /\ procErr' = EmbedFailure
    /\ IF embedFor = "sentences"
       THEN /\ sentences' = AssignEmbeddings(sentences, allEmbeddings)
            /\ UNCHANGED chunks
       ELSE /\ chunks' = AssignEmbeddings(chunks, allEmbeddings)
            /\ UNCHANGED sentences
    /\ UNCHANGED <<transcriptText, frames, cfg, chunkErr, dp, start,
                   emConfig, embedFor, texts, tokenLengths, rows>>
    /\ UNCHANGED <<attempts, table, srtBlocks, loopVars>>
    /\ UNCHANGED crawlerVars

\* one iteration of the outer loop whose embedBatch returns an error:
\* embedBatches returns (nil, err) and the caller returns the error
BatchFail ==
    /\ pc = "batch"
    /\ i < Len(texts)
    /\ \E b \in {NextBatch(texts, tokenLengths, emConfig.MaxBatchTokens, i)} :
         /\ batches' = Append(batches,
                [lo |-> i, hi |-> b.i, texts |-> b.batchTexts,
                 maxSeqLen |-> b.maxSeqLen])
         /\ i' = b.i
    /\ allEmbeddings' = <<>>
    /\ pc' = "done"
    /\ procErr' = EmbedFailure
    /\ UNCHANGED <<transcriptText, frames, sentences, cfg, chunks, chunkErr,
                   dp, start, emConfig, embedFor, texts, tokenLengths, rows>>
    /\ UNCHANGED <<attempts, table, srtBlocks, loopVars>>
    /\ UNCHANGED crawlerVars

\* embedBatches returns allEmbeddings and the caller assigns them
EmbedReturn ==
    /\ pc = "batch"
    /\ i >= Len(texts)
    /\ IF embedFor = "sentences"
       THEN /\ sentences' = AssignEmbeddings(sentences, allEmbeddings)
            /\ UNCHANGED chunks
       ELSE /\ chunks' = AssignEmbeddings(chunks, allEmbeddings)
            /\ UNCHANGED sentences
    /\ pc' = AfterEmbed
    /\ UNCHANGED <<transcriptText, frames, cfg, chunkErr, dp, start, emConfig,
                   embedFor, texts, tokenLengths, i, batches, allEmbeddings,
                   rows, procErr>>
    /\ UNCHANGED <<attempts, table, srtBlocks, loopVars>>
    /\ UNCHANGED crawlerVars

-----------------------------------------------------------------------------
(* The driver: process *)

Event ==
    [ClassName |-> "cs544", Professor |-> "prof", Semester |-> "fall",
     URL |-> "url", LectureTitle |-> "title"]

EmbeddingsRow(event, chunk) ==
    [ClassName |-> event.ClassName, Professor |-> event.Professor,
     Semester |-> event.Semester, URL |-> event.URL,
     ChunkIndex |-> chunk.ChunkIndex, ChunkText |-> chunk.Text,
     Embedding |-> chunk.Embedding, TokenCount |-> chunk.TokenCount,
     LectureTitle |-> event.LectureTitle,
     LectureTimestamp |-> chunk.StartTime]

\* FetchTranscriptByKey returns the stored transcript
FetchOk ==
    /\ pc = "fetch"
    /\ pc' = "parse"
    /\ UNCHANGED <<transcriptText, frames, sentences, cfg, chunks, chunkErr,
                   dp, start, emConfig, embedFor, texts, tokenLengths, i,
                   batches, allEmbeddings, rows, procErr>>
    /\ UNCHANGED <<attempts, table, srtBlocks, loopVars>>
    /\ UNCHANGED crawlerVars

\* FetchTranscriptByKey returns an error
FetchFail ==
    /\ pc = "fetch"
    /\ pc' = "done"
    /\ procErr' = "failed to fetch transcript"
    /\ UNCHANGED <<transcriptText, frames, sentences, cfg, chunks, chunkErr,
                   dp, start, emConfig, embedFor, texts, tokenLengths, i,
                   batches, allEmbeddings, rows>>
    /\ UNCHANGED <<attempts, table, srtBlocks, loopVars>>
    /\ UNCHANGED crawlerVars

\* ParseSRT, then ExtractSentencesFromFrames
ParseAndAssemble ==
    /\ pc = "parse"
    /\ \E fs \in {ParseSRT(transcriptText)} :
         /\ frames' = fs
         /\ sentences' = ExtractSentencesFromFrames(fs)
    /\ pc' = "embedSentences"
    /\ UNCHANGED <<transcriptText, cfg, chunks, chunkErr, dp, start, emConfig,
                   embedFor, texts, tokenLengths, i, batches, allEmbeddings,
                   rows, procErr>>
    /\ UNCHANGED <<attempts, table, srtBlocks, loopVars>>
    /\ UNCHANGED crawlerVars

\* chunkingCfg.ExtractChunksFromSentences(sentences)
ExtractChunks ==
    /\ pc = "chunk"
    /\ \E r \in {ExtractChunksFromSentences(cfg, sentences)} :
         /\ chunks' = r.chunks
         /\ chunkErr' = r.err
         /\ dp' = r.table.dp
         /\ start' = r.table.start
         /\ IF r.err # NoErr
            THEN pc' = "done" /\ procErr' = "failed to extract chunks"
            ELSE pc' = "embedChunks" /\ UNCHANGED procErr
    /\ UNCHANGED <<transcriptText, frames, sentences, cfg, emConfig, embedFor,
                   texts, tokenLengths, i, batches, allEmbeddings, rows>>
    /\ UNCHANGED <<attempts, table, srtBlocks, loopVars>>
    /\ UNCHANGED crawlerVars

\* primary key of the embeddings table: partition key (class_name, professor,
\* semester), cluster key (url, chunk_index)
RowKey(row) ==
    <<row.ClassName, row.Professor, row.Semester, row.URL, row.ChunkIndex>>

\* the INSERT adds a row whatever the table holds
AppendRow(tbl, row) == Append(tbl, row)

\* INSERT INTO embeddings: the row replaces the row of the same primary key
Upsert(tbl, row) ==
    Append(SelectSeq(tbl, LAMBDA r : RowKey(r) # RowKey(row)), row)

\* one iteration of the insert loop whose InsertEmbedding succeeds; the loop
\* index i is Len(rows)
InsertOk ==
    /\ pc = "insert"
    /\ Len(rows) < Len(chunks)
    /\ rows' = Append(rows, EmbeddingsRow(Event, chunks[Len(rows) + 1]))
    /\ table' = Upsert(table, EmbeddingsRow(Event, chunks[Len(rows) + 1]))
    /\ attempts' = Append(attempts, Len(rows))
    /\ UNCHANGED <<pc, transcriptText, frames, sentences, cfg, chunks,
                   chunkErr, dp, start, emConfig, embedFor, texts,
                   tokenLengths, i, batches, allEmbeddings, procErr>>
    /\ UNCHANGED <<srtBlocks, loopVars>>
    /\ UNCHANGED crawlerVars

\* a failed insert is reported and the loop goes on
InsertFailGoesOn ==
    /\ pc = "insert"
    /\ Len(rows) < Len(chunks)
    /\ procErr' = "failed to insert chunk"
    /\ attempts' = Append(attempts, Len(rows))
    /\ UNCHANGED <<pc, transcriptText, frames, sentences, cfg, chunks, chunkErr,
                   dp, start, emConfig, embedFor, texts, tokenLengths, i,
                   batches, allEmbeddings, rows, table>>
    /\ UNCHANGED <<srtBlocks, loopVars>>
    /\ UNCHANGED crawlerVars

\* one iteration of the insert loop whose InsertEmbedding returns an error
InsertFail ==
    /\ pc = "insert"
    /\ Len(rows) < Len(chunks)
    /\ pc' = "done"
    /\ procErr' = "failed to insert chunk"
    /\ attempts' = Append(attempts, Len(rows))
    /\ UNCHANGED <<transcriptText, frames, sentences, cfg, chunks, chunkErr,
                   dp, start, emConfig, embedFor, texts, tokenLengths, i,
                   batches, allEmbeddings, rows, table>>
    /\ UNCHANGED <<srtBlocks, loopVars>>
    /\ UNCHANGED crawlerVars

\* the insert loop is over: process returns nil
ProcessReturn ==
    /\ pc = "insert"
    /\ Len(rows) >= Len(chunks)
    /\ pc' = "done"
    /\ UNCHANGED <<transcriptText, frames, sentences, cfg, chunks, chunkErr,
                   dp, start, emConfig, embedFor, texts, tokenLengths, i,
                   batches, allEmbeddings, rows, procErr>>
    /\ UNCHANGED <<attempts, table, srtBlocks, loopVars>>
    /\ UNCHANGED crawlerVars

-----------------------------------------------------------------------------
(* The poll loop of main and the consumer *)

\* the positions of process
JobPcs ==
    {"fetch", "parse", "embedSentences", "batch", "chunk", "embedChunks",
     "insert"}

\* the per-job variables other than the ones a new call of process resets
jobInputs == <<transcriptText, cfg, emConfig, table, srtBlocks>>

\* signal.Notify(sigchan, SIGINT, SIGTERM): the signal is put in sigchan
Signal ==
    /\ sigAt = ""
    /\ pc # "exit"
    /\ sigchan' = (IF Len(sigchan) < 1 THEN Append(sigchan, "SIGTERM")
                   ELSE sigchan)
    /\ sigAt' = pc
    /\ UNCHANGED <<pc, frames, sentences, chunks, chunkErr, dp, start,
                   embedFor, texts, tokenLengths, i, batches, allEmbeddings,
                   rows, procErr, attempts, jobInputs, run, bus, position,
                   committed, handled>>
    /\ UNCHANGED crawlerVars

\* the select never finds a signal in the channel
SignalNeverReady(ch) == FALSE

\* select: case sig := <-sigchan is ready; default runs only when it is not
SignalReady(ch) == ch # <<>>

\* case sig := <-sigchan: run = false
SelectSignal ==
    /\ pc = "loop"
    /\ run
    /\ SignalReady(sigchan)
    /\ sigchan' = Tail(sigchan)
    /\ run' = FALSE
    /\ UNCHANGED <<pc, frames, sentences, chunks, chunkErr, dp, start,
                   embedFor, texts, tokenLengths, i, batches, allEmbeddings,
                   rows, procErr, attempts, jobInputs, sigAt, bus, position,
                   committed, handled>>
    /\ UNCHANGED crawlerVars

\* default: the loop goes on to consumer.Poll(500)
SelectDefault ==
    /\ pc = "loop"
    /\ run
    /\ ~SignalReady(sigchan)
    /\ pc' = "poll"
    /\ UNCHANGED <<frames, sentences, chunks, chunkErr, dp, start, embedFor,
                   texts, tokenLengths, i, batches, allEmbeddings, rows,
                   procErr, attempts, jobInputs, loopVars>>
    /\ UNCHANGED crawlerVars

\* for run: the loop ends once run is false
LoopExit ==
    /\ pc = "loop"
    /\ ~run
    /\ pc' = "exit"
    /\ UNCHANGED <<frames, sentences, chunks, chunkErr, dp, start, embedFor,
                   texts, tokenLengths, i, batches, allEmbeddings, rows,
                   procErr, attempts, jobInputs, loopVars>>
    /\ UNCHANGED crawlerVars

\* Poll returns nil after its timeout, or an event main does not handle
PollNil ==
    /\ pc = "poll"
    /\ pc' = "loop"
    /\ UNCHANGED <<frames, sentences, chunks, chunkErr, dp, start, embedFor,
                   texts, tokenLengths, i, batches, allEmbeddings, rows,
                   procErr, attempts, jobInputs, loopVars>>
    /\ UNCHANGED crawlerVars

\* Poll returns a kafka.Error; ErrAllBrokersDown ends the loop
PollError ==
    /\ pc = "poll"
    /\ \E allBrokersDown \in BOOLEAN :
         run' = (IF allBrokersDown THEN FALSE ELSE run)
    /\ pc' = "loop"
    /\ UNCHANGED <<frames, sentences, chunks, chunkErr, dp, start, embedFor,
                   texts, tokenLengths, i, batches, allEmbeddings, rows,
                   procErr, attempts, jobInputs, sigchan, sigAt, bus, position,
                   committed, handled>>
    /\ UNCHANGED crawlerVars

\* what main records of a message: its offset, the error it ended with
\* ("" = none) and the number of rows its job stored
Handled(offset, err, stored) ==
    [offset |-> offset, err |-> err, stored |-> stored]

\* Poll returns the next message of the topic; json.Unmarshal fails on a
\* message that is not an event, otherwise process is called
PollMessage ==
    /\ pc = "poll"
    /\ position < Len(bus)
    /\ position' = position + 1
    /\ IF At(bus, position) # "event"
       THEN /\ handled' = Append(handled,
                   Handled(position, "error parsing message", 0))
            /\ pc' = "loop"
            /\ UNCHANGED <<frames, sentences, chunks, chunkErr, dp, start,
                           embedFor, texts, tokenLengths, i, batches,
                           allEmbeddings, rows, procErr, attempts>>
       ELSE /\ pc' = "fetch"
            /\ frames' = <<>>
            /\ sentences' = <<>>
            /\ chunks' = <<>>
            /\ chunkErr' = NoErr
            /\ dp' = <<>>
            /\ start' = <<>>
            /\ embedFor' = "sentences"
            /\ texts' = <<>>
            /\ tokenLengths' = <<>>
            /\ i' = 0
            /\ batches' = <<>>
            /\ allEmbeddings' = <<>>
            /\ rows' = <<>>
            /\ procErr' = ""
            /\ attempts' = <<>>
            /\ UNCHANGED handled
    /\ UNCHANGED <<jobInputs, run, sigchan, sigAt, bus, committed>>
    /\ UNCHANGED crawlerVars

\* process has returned: main prints the error or the success and goes on
\* with the loop
JobReturn ==
    /\ pc = "done"
    /\ handled' = Append(handled, Handled(position - 1, procErr, Len(rows)))
    /\ pc' = "loop"
    /\ UNCHANGED <<frames, sentences, chunks, chunkErr, dp, start, embedFor,
                   texts, tokenLengths, i, batches, allEmbeddings, rows,
                   procErr, attempts, jobInputs, run, sigchan, sigAt, bus,
                   position, committed>>
    /\ UNCHANGED crawlerVars

\* the consumer is created without enable.auto.commit, which the client then
\* takes as true: in the background, and when the consumer is closed, it
\* commits the offset after the last message Poll returned
AutoCommit ==
    /\ committed < position
    /\ committed' = position
    /\ UNCHANGED <<pc, frames, sentences, chunks, chunkErr, dp, start,
                   embedFor, texts, tokenLengths, i, batches, allEmbeddings,
                   rows, procErr, attempts, jobInputs, run, sigchan, sigAt,
                   bus, position, handled>>
    /\ UNCHANGED crawlerVars

-----------------------------------------------------------------------------
(* The watcher: runParsers and AddLecture on Redis *)

\* two watchers that work on the same Redis
Watchers == {"w1", "w2"}

\* LectureInfo; the fields other than the URL play no part in AddLecture
LectureInfo(url) == [URL |-> url]

\* json.Marshal(lecture), the string pushed to the queue
Marshal(lecture) == [json |-> lecture]

\* the lecture the loop of runParsers has in hand
LectureOf(w) == At(lectures[w], lectureIdx[w])

\* AddLecture returns (added, err); runParsers logs it and goes on with the
\* next lecture
Return(w, added, err) ==
    /\ calls' = Append(calls,
           [watcher |-> w, url |-> LectureOf(w).URL, added |-> added,
            err |-> err])
    /\ lectureIdx' = [lectureIdx EXCEPT ![w] = @ + 1]
    /\ watcherPc' = [watcherPc EXCEPT ![w] = "IsSeen"]

\* AddLecture: IsSeen (SISMEMBER) answers; a seen URL returns (false, nil)
IsSeenOk(w) ==
    /\ watcherPc[w] = "IsSeen"
    /\ lectureIdx[w] < Len(lectures[w])
    /\ IF LectureOf(w).URL \in seen
       THEN Return(w, FALSE, "")
       ELSE /\ watcherPc' = [watcherPc EXCEPT ![w] = "SAdd"]
            /\ UNCHANGED <<calls, lectureIdx>>
    /\ UNCHANGED <<seen, queue, lectures, parsersDir, parsersTable,
                   lastUpdate>>
    /\ UNCHANGED processorVars

\* AddLecture: IsSeen fails
IsSeenErr(w) ==
    /\ watcherPc[w] = "IsSeen"
    /\ lectureIdx[w] < Len(lectures[w])
    /\ Return(w, FALSE, "error checking seen set")
    /\ UNCHANGED <<seen, queue, lectures, parsersDir, parsersTable,
                   lastUpdate>>
    /\ UNCHANGED processorVars

\* AddLecture: SADD puts the URL in the seen set
SAddOk(w) ==
    /\ watcherPc[w] = "SAdd"
    /\ seen' = seen \cup {LectureOf(w).URL}
    /\ watcherPc' = [watcherPc EXCEPT ![w] = "RPush"]
    /\ UNCHANGED <<queue, lectures, lectureIdx, calls, parsersDir,
                   parsersTable, lastUpdate>>
    /\ UNCHANGED processorVars

\* AddLecture: SADD fails
SAddErr(w) ==
    /\ watcherPc[w] = "SAdd"
    /\ Return(w, FALSE, "error adding to seen set")
    /\ UNCHANGED <<seen, queue, lectures, parsersDir, parsersTable,
                   lastUpdate>>
    /\ UNCHANGED processorVars

\* AddLecture: RPUSH appends the JSON of the lecture to the queue and the
\* call returns (true, nil)
RPushOk(w) ==
    /\ watcherPc[w] = "RPush"
    /\ queue' = Append(queue, Marshal(LectureOf(w)))
    /\ Return(w, TRUE, "")
    /\ UNCHANGED <<seen, lectures, parsersDir, parsersTable, lastUpdate>>
    /\ UNCHANGED processorVars

\* AddLecture: RPUSH fails
RPushErr(w) ==
    /\ watcherPc[w] = "RPush"
    /\ Return(w, FALSE, "error adding to queue")
    /\ UNCHANGED <<seen, queue, lectures, parsersDir, parsersTable,
                   lastUpdate>>
    /\ UNCHANGED processorVars

-----------------------------------------------------------------------------
(* The watcher: updateParsers *)

\* the file name extension ".py", one atom
PySuffix == ".py"

\* strings.TrimSuffix
TrimSuffix(s, suffix) ==
    IF HasSuffix(s, suffix) THEN SubSeq(s, 1, Len(s) - 1) ELSE s

\* a row of the parsers table
Parser(parserName, codeText) ==
    [ParserName |-> parserName, CodeText |-> codeText]

\* an entry of the parsers directory
DirEntry(name, isDir, code) == [name |-> name, isDir |-> isDir, code |-> code]

\* filepath.Join(parsersDir, parser.ParserName+".py"), within the directory
FileName(parser) == Append(parser.ParserName, PySuffix)

\* no file is ever taken for the file of a deleted parser
StaleNever(entry, validParsers) == FALSE

\* a .py file whose parser is not in validParsers
Stale(entry, validParsers) ==
    /\ ~entry.isDir
    /\ HasSuffix(entry.name, PySuffix)
    /\ TrimSuffix(entry.name, PySuffix) \notin validParsers

\* the entries CleanupDeletedParsers tries to remove
StaleEntries(parsers, dir) ==
    {e \in dir.entries : Stale(e, {p.ParserName : p \in parsers})}

\* the directory after CleanupDeletedParsers; readFails: os.ReadDir fails
\* on a directory that exists, removeFails: the names os.Remove fails on
CleanupDeletedParsers(parsers, dir, readFails, removeFails) ==
    IF ~dir.exists \/ readFails THEN dir
    ELSE [dir EXCEPT !.entries =
            @ \ {e \in StaleEntries(parsers, dir) : e.name \notin removeFails}]

\* the parsers os.WriteFile writes: not the ones in writeFails, and not
\* one whose file name is the name of a directory
Written(parsers, dir, writeFails) ==
    {p \in parsers :
        /\ FileName(p) \notin writeFails
        /\ ~\E e \in dir.entries : e.name = FileName(p) /\ e.isDir}

\* the directory after WriteParsersToDisk; mkdirFails: os.MkdirAll fails
WriteParsersToDisk(parsers, dir, mkdirFails, writeFails) ==
    IF mkdirFails THEN dir
    ELSE LET written == Written(parsers, dir, writeFails) IN
         [exists |-> TRUE,
          entries |->
            {e \in dir.entries : \A p \in written : FileName(p) # e.name}
              \cup {DirEntry(FileName(p), FALSE, p.CodeText) : p \in written}]

\* what a call of updateParsers met: whether FetchParsers succeeded and
\* with which rows, whether a file operation failed, and the directory as
\* the call found it
Update(fetched, parsers, failed, before) ==
    [ran |-> TRUE, fetched |-> fetched, parsers |-> parsers,
     failed |-> failed, before |-> before]

\* updateParsers when FetchParsers fails
UpdateParsersFetchFails ==
    /\ lastUpdate' = Update(FALSE, {}, FALSE, parsersDir)
    /\ UNCHANGED <<parsersDir, parsersTable>>
    /\ UNCHANGED <<seen, queue, lectures, lectureIdx, watcherPc, calls>>
    /\ UNCHANGED processorVars

\* updateParsers when FetchParsers succeeds: CleanupDeletedParsers, then
\* WriteParsersToDisk if there is a parser
UpdateParsers ==
    /\ \E parsers \in {parsersTable} :
       \E readFails, mkdirFails \in BOOLEAN :
       \E removeFails \in
             SUBSET {e.name : e \in StaleEntries(parsers, parsersDir)} :
       \E writeFails \in SUBSET {FileName(p) : p \in parsers} :
         LET cleaned == CleanupDeletedParsers(parsers, parsersDir, readFails,
                                              removeFails)
             failed ==
                \/ parsersDir.exists /\ readFails
                \/ parsersDir.exists /\ ~readFails /\ removeFails # {}
                \/ parsers # {} /\ mkdirFails
                \/ parsers # {} /\ ~mkdirFails
                      /\ Written(parsers, cleaned, writeFails) # parsers
         IN  /\ parsersDir' =
                   (IF Cardinality(parsers) > 0
                    THEN WriteParsersToDisk(parsers, cleaned, mkdirFails,
                                            writeFails)
                    ELSE cleaned)
             /\ lastUpdate' = Update(TRUE, parsers, failed, parsersDir)
    /\ UNCHANGED parsersTable
    /\ UNCHANGED <<seen, queue, lectures, lectureIdx, watcherPc, calls>>
    /\ UNCHANGED processorVars

\* no watcher at work: Redis empty, no directory, no parser
CrawlerIdle ==
    /\ seen = {}
    /\ queue = <<>>
    /\ lectures = [w \in Watchers |-> <<>>]
    /\ lectureIdx = [w \in Watchers |-> 0]
    /\ watcherPc = [w \in Watchers |-> "IsSeen"]
    /\ calls = <<>>
    /\ parsersDir = [exists |-> FALSE, entries |-> {}]
    /\ parsersTable = {}
    /\ lastUpdate = [ran |-> FALSE, fetched |-> FALSE, parsers |-> {},
                     failed |-> FALSE, before |-> parsersDir]

-----------------------------------------------------------------------------
(* Inputs *)

\* all sequences over S of length at most n
SeqsUpTo(S, n) == UNION {[1..k -> S] : k \in 0..n}

\* lines of a transcript
SrtLines ==
    { <<"1">>,
      <<"T1", " ", "-", "-", ">", " ", "T2">>,
      <<"T3", " ", "-", "-", ">", " ", "T4">>,
      <<"A">>,
      <<"B", ".">>,
      <<"A", "?">> }

Transcripts == {Join(ls, <<"\n">>) : ls \in SeqsUpTo(SrtLines, MaxLines)}

\* <<TokenCount, Embedding>> of the sentences handed to the chunker
SentenceChoices ==
    ({100, 250} \X {<<1, 0>>, <<0, 1>>, <<3, 4>>})
        \cup {<<512, <<1, 0>>>>, <<100, Nil>>}

ChunkingConfigs ==
    { DefaultChunkingConfig,
      [OptimalSize |-> 200, MaxSize |-> 300, LambdaSize |-> 3,
       ChunkPenalty |-> 0] }

SentenceNames == <<"s1", "s2", "s3", "s4", "s5", "s6", "s7", "s8">>

Stamps == <<"T1", "T2", "T3", "T4", "T5", "T6", "T7", "T8">>

\* sentence number k of an input of the chunker
InputSentence(k, choice) ==
    Sentence(<<SentenceNames[k]>>, <<Stamps[k]>>, choice[2], choice[1])

ChunkerInputs ==
    { [k \in 1..Len(q) |-> InputSentence(k, q[k])] :
        q \in SeqsUpTo(SentenceChoices, MaxSentences) }

\* scenario S5: 6 sentences of equal token count under OptimalSize whose
\* adjacent similarities are high for the pairs 0-1, 2-3, 4-5 and low for the
\* pairs 1-2, 3-4
S5Embeddings == {<<1, 0>>, <<0, 1>>, <<3, 4>>, <<4, 3>>}

S5TokenCounts == {50, 100, 170, 171, 200, 235, 236, 256, 300}

IsS5(ss) ==
    /\ Len(ss) = 6
    /\ \A k \in 1..6 :
        /\ ss[k].Embedding # Nil
        /\ ss[k].TokenCount = ss[1].TokenCount
        /\ ss[k].TokenCount < DefaultChunkingConfig.OptimalSize
    /\ \A hi \in {0, 2, 4} : \A lo \in {1, 3} :
           RawSim(ss)[hi] > RawSim(ss)[lo]

S5Inputs ==
    { ss \in { [k \in 1..6 |-> InputSentence(k, <<t, q[k]>>)] :
                 q \in [1..6 -> S5Embeddings], t \in S5TokenCounts } :
        IsS5(ss) }

\* texts and token counts handed to EmbedSentences
EmbedTexts == { <<"A">>, <<"B">>, <<"A", " ", "B">> }

EmbedTokenChoices == {0, 3000, 3001, 6001}

EmbeddingConfigs == {DefaultEmbeddingConfig, [MaxBatchTokens |-> 12000]}

EmbedInputs ==
    { [k \in 1..Len(q) |-> Sentence(q[k][1], <<Stamps[k]>>, Nil, q[k][2])] :
        q \in SeqsUpTo(EmbedTexts \X EmbedTokenChoices, MaxTexts) }

\* the text lines of a subtitle block
BlockTextLines ==
    { <<"A">>,
      <<" ", "B", ".", " ">>,
      <<"4", "2">>,
      <<"A", " ", "-", "-", ">", " ", "B">> }

\* a subtitle block: with or without its sequence number, and one or two
\* text lines
SrtBlocks ==
    [hasNumber : BOOLEAN,
     lines : {q \in SeqsUpTo(BlockTextLines, 2) : q # <<>>}]

Numerals == <<"1", "2", "3", "4">>

\* the lines of block number k as they stand in the SRT text: sequence
\* number, time range, text lines, blank line
BlockLines(k, block) ==
    (IF block.hasNumber THEN << <<Numerals[k]>> >> ELSE <<>>)
        \o << <<Stamps[2 * k - 1], " ", "-", "-", ">", " ", Stamps[2 * k]>> >>
        \o block.lines
        \o << <<>> >>

RECURSIVE RenderBlocks(_, _)
RenderBlocks(blocks, k) ==
    IF k > Len(blocks) THEN <<>>
    ELSE BlockLines(k, blocks[k]) \o RenderBlocks(blocks, k + 1)

\* the SRT text of a sequence of blocks
SrtText(blocks) == Join(RenderBlocks(blocks, 1), <<"\n">>)

\* the stored transcript of the event in the runs of the poll loop
LoopTranscripts ==
    { <<>>,
      Join(<< <<"A", "?">> >>, <<"\n">>),
      Join(<< <<"A", "?">>, <<"B", ".">>, <<"A", "?">> >>, <<"\n">>) }

\* the values of the messages of the topic: an event, or bytes that are not
\* JSON
Messages == {"event", "garbage"}

-----------------------------------------------------------------------------
(* Specifications *)

\* process on a stored transcript, with the default configurations
Init ==
    /\ pc = "fetch"
    /\ transcriptText \in Transcripts
    /\ frames = <<>>
    /\ sentences = <<>>
    /\ cfg = DefaultChunkingConfig
    /\ chunks = <<>>
    /\ chunkErr = NoErr
    /\ dp = <<>>
    /\ start = <<>>
    /\ emConfig = DefaultEmbeddingConfig
    /\ embedFor = "sentences"
    /\ texts = <<>>
    /\ tokenLengths = <<>>
    /\ i = 0
    /\ batches = <<>>
    /\ allEmbeddings = <<>>
    /\ rows = <<>>
    /\ procErr = ""
    /\ attempts = <<>>
    /\ table = <<>>
    /\ srtBlocks = <<>>
    /\ run = TRUE
    /\ sigchan = <<>>
    /\ sigAt = ""
    /\ bus = <<>>
    /\ position = 0
    /\ committed = 0
    /\ handled = <<>>
    /\ CrawlerIdle

Next ==
    \/ FetchOk
    \/ FetchFail
    \/ ParseAndAssemble
    \/ EmbedStart
    \/ BatchOk
    \/ BatchFail
    \/ EmbedReturn
    \/ ExtractChunks
    \/ InsertOk
    \/ InsertFail
    \/ ProcessReturn

Spec == Init /\ [][Next]_vars

\* ExtractChunksFromSentences on any sentences, under any configuration
InitChunker ==
    /\ pc = "chunk"
    /\ transcriptText = <<>>
    /\ frames = <<>>
    /\ sentences \in ChunkerInputs
    /\ cfg \in ChunkingConfigs
    /\ chunks = <<>>
    /\ chunkErr = NoErr
    /\ dp = <<>>
    /\ start = <<>>
    /\ emConfig = DefaultEmbeddingConfig
    /\ embedFor = "sentences"
    /\ texts = <<>>
    /\ tokenLengths = <<>>
    /\ i = 0
    /\ batches = <<>>
    /\ allEmbeddings = <<>>
    /\ rows = <<>>
    /\ procErr = ""
    /\ attempts = <<>>
    /\ table = <<>>
    /\ srtBlocks = <<>>
    /\ run = TRUE
    /\ sigchan = <<>>
    /\ sigAt = ""
    /\ bus = <<>>
    /\ position = 0
    /\ committed = 0
    /\ handled = <<>>
    /\ CrawlerIdle

NextChunker == ExtractChunks

SpecChunker == InitChunker /\ [][NextChunker]_vars

\* EmbedSentences on any sentences, under any batch budget
InitEmbed ==
    /\ pc = "embedSentences"
    /\ transcriptText = <<>>
    /\ frames = <<>>
    /\ sentences \in EmbedInputs
    /\ cfg = DefaultChunkingConfig
    /\ chunks = <<>>
    /\ chunkErr = NoErr
    /\ dp = <<>>
    /\ start = <<>>
    /\ emConfig \in EmbeddingConfigs
    /\ embedFor = "sentences"
    /\ texts = <<>>
    /\ tokenLengths = <<>>
    /\ i = 0
    /\ batches = <<>>
    /\ allEmbeddings = <<>>
    /\ rows = <<>>
    /\ procErr = ""
    /\ attempts = <<>>
    /\ table = <<>>
    /\ srtBlocks = <<>>
    /\ run = TRUE
    /\ sigchan = <<>>
    /\ sigAt = ""
    /\ bus = <<>>
    /\ position = 0
    /\ committed = 0
    /\ handled = <<>>
    /\ CrawlerIdle

NextEmbed ==
    \/ EmbedStart
    \/ BatchOk
    \/ BatchFail
    \/ EmbedReturn

SpecEmbed == InitEmbed /\ [][NextEmbed]_vars

\* every call of embedBatch returns, and the loop goes on after it
SpecEmbedFair == SpecEmbed /\ WF_vars(NextEmbed)

\* main: the poll loop over the messages of the topic
InitLoop ==
    /\ pc = "loop"
    /\ transcriptText \in LoopTranscripts
    /\ frames = <<>>
    /\ sentences = <<>>
    /\ cfg = DefaultChunkingConfig
    /\ chunks = <<>>
    /\ chunkErr = NoErr
    /\ dp = <<>>
    /\ start = <<>>
    /\ emConfig = DefaultEmbeddingConfig
    /\ embedFor = "sentences"
    /\ texts = <<>>
    /\ tokenLengths = <<>>
    /\ i = 0
    /\ batches = <<>>
    /\ allEmbeddings = <<>>
    /\ rows = <<>>
    /\ procErr = ""
    /\ attempts = <<>>
    /\ table = <<>>
    /\ srtBlocks = <<>>
    /\ run = TRUE
    /\ sigchan = <<>>
    /\ sigAt = ""
    /\ bus \in SeqsUpTo(Messages, MaxMessages)
    /\ position = 0
    /\ committed = 0
    /\ handled = <<>>
    /\ CrawlerIdle

\* a step of main or of process, the calls of the parser and of the chunker
\* aside
ProgramStep ==
    \/ SelectSignal
    \/ SelectDefault
    \/ LoopExit
    \/ PollNil
    \/ PollError
    \/ PollMessage
    \/ JobReturn
    \/ FetchOk
    \/ FetchFail
    \/ EmbedStart
    \/ BatchOk
    \/ BatchFail
    \/ EmbedReturn
    \/ InsertOk
    \/ InsertFail
    \/ ProcessReturn

NextLoop ==
    \/ ProgramStep
    \/ ParseAndAssemble
    \/ ExtractChunks
    \/ Signal
    \/ AutoCommit

SpecLoop == InitLoop /\ [][NextLoop]_vars

\* the poll loop when the process keeps running: main and process take
\* their next step, and the calls of ParseSRT, ExtractSentencesFromFrames and
\* ExtractChunksFromSentences, loops over finite slices, return (weak
\* fairness of ParseAndAssemble and of ExtractChunks, each enabled exactly
\* at its position and leaving it)
SpecLoopFair ==
    /\ SpecLoop
    /\ WF_vars(ProgramStep)
    /\ []<>(pc # "parse")
    /\ []<>(pc # "chunk")

\* ExtractChunksFromSentences on the inputs of scenario S5, default
\* configuration
InitS5 ==
    /\ pc = "chunk"
    /\ transcriptText = <<>>
    /\ frames = <<>>
    /\ sentences \in S5Inputs
    /\ cfg = DefaultChunkingConfig
    /\ chunks = <<>>
    /\ chunkErr = NoErr
    /\ dp = <<>>
    /\ start = <<>>
    /\ emConfig = DefaultEmbeddingConfig
    /\ embedFor = "sentences"
    /\ texts = <<>>
    /\ tokenLengths = <<>>
    /\ i = 0
    /\ batches = <<>>
    /\ allEmbeddings = <<>>
    /\ rows = <<>>
    /\ procErr = ""
    /\ attempts = <<>>
    /\ table = <<>>
    /\ srtBlocks = <<>>
    /\ run = TRUE
    /\ sigchan = <<>>
    /\ sigAt = ""
    /\ bus = <<>>
    /\ position = 0
    /\ committed = 0
    /\ handled = <<>>
    /\ CrawlerIdle

SpecS5 == InitS5 /\ [][NextChunker]_vars

\* ParseSRT and ExtractSentencesFromFrames on the text of subtitle blocks
InitParse ==
    /\ pc = "parse"
    /\ srtBlocks \in SeqsUpTo(SrtBlocks, MaxBlocks)
    /\ transcriptText = SrtText(srtBlocks)
    /\ frames = <<>>
    /\ sentences = <<>>
    /\ cfg = DefaultChunkingConfig
    /\ chunks = <<>>
    /\ chunkErr = NoErr
    /\ dp = <<>>
    /\ start = <<>>
    /\ emConfig = DefaultEmbeddingConfig
    /\ embedFor = "sentences"
    /\ texts = <<>>
    /\ tokenLengths = <<>>
    /\ i = 0
    /\ batches = <<>>
    /\ allEmbeddings = <<>>
    /\ rows = <<>>
    /\ procErr = ""
    /\ attempts = <<>>
    /\ table = <<>>
    /\ run = TRUE
    /\ sigchan = <<>>
    /\ sigAt = ""
    /\ bus = <<>>
    /\ position = 0
    /\ committed = 0
    /\ handled = <<>>
    /\ CrawlerIdle

NextParse == ParseAndAssemble

SpecParse == InitParse /\ [][NextParse]_vars

\* ---- ParseSRT over transcripts holding malformed time range lines ----

\* the lines of such a transcript: a time range, a line with two "-->", a
\* line with an empty start half, a line with a half that is no time
\* stamp, and two text lines
RangeLines ==
    { <<"T1", " ", "-", "-", ">", " ", "T2">>,
      <<"T3", " ", "-", "-", ">", " ", "T4", " ", "-", "-", ">", " ", "T5">>,
      <<"-", "-", ">", " ", "T6">>,
      <<"T7", " ", "-", "-", ">", " ", "x">>,
      <<"A">>,
      <<"B", ".">> }

RangeTranscripts == {Join(ls, <<"\n">>) : ls \in SeqsUpTo(RangeLines, MaxLines)}

InitRanges ==
    /\ pc = "parse"
    /\ transcriptText \in RangeTranscripts
    /\ srtBlocks = <<>>
    /\ frames = <<>>
    /\ sentences = <<>>
    /\ cfg = DefaultChunkingConfig
    /\ chunks = <<>>
    /\ chunkErr = NoErr
    /\ dp = <<>>
    /\ start = <<>>
    /\ emConfig = DefaultEmbeddingConfig
    /\ embedFor = "sentences"
    /\ texts = <<>>
    /\ tokenLengths = <<>>
    /\ i = 0
    /\ batches = <<>>
    /\ allEmbeddings = <<>>
    /\ rows = <<>>
    /\ procErr = ""
    /\ attempts = <<>>
    /\ table = <<>>
    /\ run = TRUE
    /\ sigchan = <<>>
    /\ sigAt = ""
    /\ bus = <<>>
    /\ position = 0
    /\ committed = 0
    /\ handled = <<>>
    /\ CrawlerIdle

SpecRanges == InitRanges /\ [][NextParse]_vars

\* ---- the watcher ----

\* the processor is not part of the watcher's specifications
ProcessorIdle ==
    /\ pc = "exit"
    /\ transcriptText = <<>>
    /\ frames = <<>>
    /\ sentences = <<>>
    /\ cfg = DefaultChunkingConfig
    /\ chunks = <<>>
    /\ chunkErr = NoErr
    /\ dp = <<>>
    /\ start = <<>>
    /\ emConfig = DefaultEmbeddingConfig
    /\ embedFor = "sentences"
    /\ texts = <<>>
    /\ tokenLengths = <<>>
    /\ i = 0
    /\ batches = <<>>
    /\ allEmbeddings = <<>>
    /\ rows = <<>>
    /\ procErr = ""
    /\ attempts = <<>>
    /\ table = <<>>
    /\ srtBlocks = <<>>
    /\ run = FALSE
    /\ sigchan = <<>>
    /\ sigAt = ""
    /\ bus = <<>>
    /\ position = 0
    /\ committed = 0
    /\ handled = <<>>

\* the URLs the parsers print
LectureURLs == {"u1", "u2"}

\* the lectures the parsers of one watcher return over its cycles, in order
LectureLists ==
    { [k \in 1..Len(q) |-> LectureInfo(q[k])] :
        q \in SeqsUpTo(LectureURLs, MaxLectures) }

\* runParsers of two watchers on an empty Redis
InitWatchers ==
    /\ ProcessorIdle
    /\ seen = {}
    /\ queue = <<>>
    /\ lectures \in [Watchers -> LectureLists]
    /\ lectureIdx = [w \in Watchers |-> 0]
    /\ watcherPc = [w \in Watchers |-> "IsSeen"]
    /\ calls = <<>>
    /\ parsersDir = [exists |-> FALSE, entries |-> {}]
    /\ parsersTable = {}
    /\ lastUpdate = [ran |-> FALSE, fetched |-> FALSE, parsers |-> {},
                     failed |-> FALSE, before |-> parsersDir]

NextWatchers ==
    \E w \in Watchers :
        \/ IsSeenOk(w)
        \/ IsSeenErr(w)
        \/ SAddOk(w)
        \/ SAddErr(w)
        \/ RPushOk(w)
        \/ RPushErr(w)

SpecWatchers == InitWatchers /\ [][NextWatchers]_vars

\* the parser names of the table
ParserNames == {<<"a">>, <<"b">>}

ParserCodes == {<<"v1">>, <<"v2">>}

\* the parsers tables: parser_name is the key of a row
ParserTables ==
    { t \in SUBSET {Parser(n, c) : n \in ParserNames, c \in ParserCodes} :
        \A p1, p2 \in t : p1.ParserName = p2.ParserName => p1 = p2 }

\* what a parsers directory holds when the watcher starts: the file of a
\* current parser with old code, the file of a parser deleted since, a file
\* that is no parser, and a directory whose name ends in ".py"
InitialEntries ==
    { DirEntry(<<"a", ".py">>, FALSE, <<"v1">>),
      DirEntry(<<"old", ".py">>, FALSE, <<"v1">>),
      DirEntry(<<"notes", ".txt">>, FALSE, <<"v1">>),
      DirEntry(<<"b", ".py">>, TRUE, <<>>) }

InitialDirs ==
    {[exists |-> FALSE, entries |-> {}]}
        \cup {[exists |-> TRUE, entries |-> es] : es \in SUBSET InitialEntries}

\* python manage.py apply: the user uploads the parsers, the table changes
ApplyParsers ==
    /\ parsersTable' \in ParserTables \ {parsersTable}
    /\ UNCHANGED <<parsersDir, lastUpdate>>
    /\ UNCHANGED <<seen, queue, lectures, lectureIdx, watcherPc, calls>>
    /\ UNCHANGED processorVars

\* the cycles of updateParsers of one watcher
InitParsers ==
    /\ ProcessorIdle
    /\ seen = {}
    /\ queue = <<>>
    /\ lectures = [w \in Watchers |-> <<>>]
    /\ lectureIdx = [w \in Watchers |-> 0]
    /\ watcherPc = [w \in Watchers |-> "IsSeen"]
    /\ calls = <<>>
    /\ parsersDir \in InitialDirs
    /\ parsersTable \in ParserTables
    /\ lastUpdate = [ran |-> FALSE, fetched |-> FALSE, parsers |-> {},
                     failed |-> FALSE, before |-> parsersDir]

NextParsers ==
    \/ UpdateParsers
    \/ UpdateParsersFetchFails
    \/ ApplyParsers

SpecParsers == InitParsers /\ [][NextParsers]_vars

-----------------------------------------------------------------------------
(* Properties of ExtractChunksFromSentences (SpecChunker) *)

ChunkerReturned == pc # "chunk"

NumSentencesOf(cs) == [k \in 1..Len(cs) |-> cs[k].NumSentences]

RECURSIVE SumSeq(_)
SumSeq(q) == IF q = <<>> THEN 0 ELSE Head(q) + SumSeq(Tail(q))

\* number of sentences in the chunks before chunk k
Offset(cs, k) == SumSeq(SubSeq(NumSentencesOf(cs), 1, k - 1))

\* the sentences chunk k stands for, if the chunks are consecutive runs
RunOf(ss, cs, k) == SubSeq(ss, Offset(cs, k) + 1, Offset(cs, k) + cs[k].NumSentences)

TextsOf(q) == [k \in 1..Len(q) |-> q[k].Text]

\* C1: whenever ExtractChunksFromSentences returns chunks rather than an
\* error, every returned chunk has TokenCount <= cfg.MaxSize.
C1_ChunksWithinMaxSize ==
    (ChunkerReturned /\ chunkErr = NoErr) =>
        \A k \in 1..Len(chunks) : chunks[k].TokenCount <= cfg.MaxSize

\* C2: on success the chunks are non-empty consecutive runs that partition
\* the sentences: the NumSentences sum to n, and chunk k's Text, TokenCount
\* and SentenceEmbeddings are those of the k-th run, the Text joined by
\* single spaces.
C2_ChunksPartitionSentences ==
    (ChunkerReturned /\ chunkErr = NoErr) =>
        /\ SumSeq(NumSentencesOf(chunks)) = Len(sentences)
        /\ \A k \in 1..Len(chunks) :
            /\ chunks[k].NumSentences >= 1
            /\ Offset(chunks, k) + chunks[k].NumSentences <= Len(sentences)
            /\ chunks[k].Text = Join(TextsOf(RunOf(sentences, chunks, k)), <<" ">>)
            /\ chunks[k].TokenCount = SeqTokenSum(RunOf(sentences, chunks, k))
            /\ chunks[k].SentenceEmbeddings =
                   [m \in 1..chunks[k].NumSentences |->
                       RunOf(sentences, chunks, k)[m].Embedding]

C2_Witness ==
    /\ ChunkerReturned
    /\ chunkErr = NoErr
    /\ Len(sentences) = 4
    /\ Len(chunks) = 2
    /\ chunks[1].NumSentences = 1
    /\ chunks[2].NumSentences = 3

\* the segments [lo, hi) of the partition of [0, n) cut at the points of cuts
SegmentsOf(cuts, n) ==
    LET pts == cuts \cup {0, n} IN
    { <<lo, hi>> \in pts \X pts :
        lo < hi /\ ~ \E m \in pts : lo < m /\ m < hi }

RECURSIVE SumOver(_, _)
SumOver(S, f) ==
    IF S = {} THEN 0
    ELSE LET x == CHOOSE y \in S : TRUE IN f[x] + SumOver(S \ {x}, f)

\* score of every segment [lo, hi): reward - penalty - ChunkPenalty, in the
\* DP's units
SegmentScores(c, ss) ==
    LET n == Len(ss)
        simDen == SimDen(RawSim(ss))
        prefixSim == PrefixSim(Normalize(RawSim(ss)), n)
        prefixTokens == PrefixTokens(ss)
    IN  [seg \in {x \in (0..n) \X (0..n) : x[1] < x[2]} |->
            SegmentReward(seg[1], seg[2], prefixSim) * PenDen(c)
            - ComputePenalty(c, seg[1], seg[2], prefixTokens).penalty * simDen
            - c.ChunkPenalty * simDen * PenDen(c)]

\* token total of every segment [lo, hi)
SegmentTokens(ss) ==
    [seg \in {x \in (0..Len(ss)) \X (0..Len(ss)) : x[1] < x[2]} |->
        SeqTokenSum(SubSeq(ss, seg[1] + 1, seg[2]))]

PartitionScore(scores, cuts, n) == SumOver(SegmentsOf(cuts, n), scores)

LegalPartition(tokens, maxSize, cuts, n) ==
    \A seg \in SegmentsOf(cuts, n) : tokens[seg] <= maxSize

\* the cut points of the partition the chunks stand for
CutsOf(cs) == {Offset(cs, k) : k \in 2..Len(cs)}

ChunkerPrecondition ==
    /\ Len(sentences) >= 2
    /\ \A k \in 1..Len(sentences) :
        /\ sentences[k].TokenCount <= cfg.MaxSize
        /\ sentences[k].Embedding # Nil

\* C3: for n >= 2 sentences each within MaxSize, the returned partition
\* scores at least as much as every partition of [0, n) into consecutive
\* segments of at most MaxSize tokens.
C3_DPOptimal ==
    (ChunkerReturned /\ ChunkerPrecondition /\ chunkErr = NoErr) =>
        LET n == Len(sentences)
            scores == SegmentScores(cfg, sentences)
            tokens == SegmentTokens(sentences)
            returned == PartitionScore(scores, CutsOf(chunks), n)
        IN  \A cuts \in SUBSET (1..(n - 1)) :
                LegalPartition(tokens, cfg.MaxSize, cuts, n) =>
                    returned >= PartitionScore(scores, cuts, n)

C3_Witness ==
    /\ ChunkerReturned
    /\ ChunkerPrecondition
    /\ chunkErr = NoErr
    /\ Len(sentences) = 4
    /\ Len(chunks) = 2
    /\ chunks[1].NumSentences = 2
    /\ LET scores == SegmentScores(cfg, sentences)
           tokens == SegmentTokens(sentences)
       IN  /\ \E cuts \in SUBSET (1..3) :
                /\ Cardinality(cuts) = 1
                /\ LegalPartition(tokens, cfg.MaxSize, cuts, 4)
                /\ PartitionScore(scores, CutsOf(chunks), 4)
                       > PartitionScore(scores, cuts, 4)
           /\ \E cuts \in SUBSET (1..3) :
                ~LegalPartition(tokens, cfg.MaxSize, cuts, 4)

\* C7: if some sentence has TokenCount > MaxSize or no embedding, the call
\* returns an error naming the index of such a sentence, and no chunks.
C7_InvariantViolationFails ==
    (/\ ChunkerReturned
     /\ \E k \in 1..Len(sentences) :
            \/ sentences[k].TokenCount > cfg.MaxSize
            \/ sentences[k].Embedding = Nil)
    => /\ chunks = <<>>
       /\ chunkErr.kind \in {"TokenCount > MaxSize", "Embedding is nil"}
       /\ chunkErr.idx \in 0..(Len(sentences) - 1)
       /\ chunkErr.kind = "TokenCount > MaxSize" =>
              At(sentences, chunkErr.idx).TokenCount > cfg.MaxSize
       /\ chunkErr.kind = "Embedding is nil" =>
              At(sentences, chunkErr.idx).Embedding = Nil

\* does the walk pos, start[pos], start[start[pos]], ... reach 0
RECURSIVE ReachesZero(_, _)
ReachesZero(startv, pos) ==
    IF pos = 0 THEN TRUE
    ELSE IF startv[pos] < 0 \/ startv[pos] >= pos THEN FALSE
    ELSE ReachesZero(startv, startv[pos])

Predecessors(c, ss, dpv, j) ==
    {k \in 0..(j - 1) :
        /\ dpv[k] # NegInf
        /\ SeqTokenSum(SubSeq(ss, k + 1, j)) <= c.MaxSize}

\* dp[i] + reward(i,j) - penalty(i,j) - ChunkPenalty, in the DP's units
Candidate(c, ss, dpv, k, j) == dpv[k] + SegmentScores(c, ss)[<<k, j>>]

\* C17: for every j in 1..n, start[j] is the smallest i among the legal,
\* reachable predecessors that attain the maximum of
\* dp[i] + reward(i,j) - penalty(i,j) - ChunkPenalty, and dp[j] is that
\* maximum.
C17_FirstBestPredecessorWins ==
    (ChunkerReturned /\ ChunkerPrecondition) =>
        \A j \in 1..Len(sentences) :
            LET P == Predecessors(cfg, sentences, dp, j)
                best == SetMax({Candidate(cfg, sentences, dp, k, j) : k \in P})
            IN  /\ P # {}
                /\ dp[j] = best
                /\ start[j] = SetMin({k \in P :
                       Candidate(cfg, sentences, dp, k, j) = best})

C17_Witness ==
    /\ ChunkerReturned
    /\ ChunkerPrecondition
    /\ \E j \in 1..Len(sentences) :
        \E k \in Predecessors(cfg, sentences, dp, j) :
            /\ k > start[j]
            /\ Candidate(cfg, sentences, dp, k, j) = dp[j]

-----------------------------------------------------------------------------
(* Scenario S5 (SpecS5) *)

\* the chunks are the three pairs {0,1}, {2,3}, {4,5}
ThreePairs ==
    /\ chunkErr = NoErr
    /\ NumSentencesOf(chunks) = <<2, 2, 2>>
    /\ \A k \in 1..3 :
           chunks[k].Text = Join(<<sentences[2 * k - 1].Text,
                                   sentences[2 * k].Text>>, <<" ">>)

\* C16 as stated: for 6 sentences of scenario S5, whatever their equal
\* token count under OptimalSize, the chunker with the default configuration
\* returns exactly the 3 chunks {0,1}, {2,3}, {4,5}.
C16_S5ThreeChunks ==
    (ChunkerReturned /\ IsS5(sentences)) => ThreePairs

\* two sentences fit within OptimalSize and three do not fit within MaxSize
PairsForced(ss, c) ==
    /\ 2 * ss[1].TokenCount <= c.OptimalSize
    /\ 3 * ss[1].TokenCount > c.MaxSize

\* C16 amended: for 6 sentences of scenario S5 whose equal token count t has
\* 2t <= OptimalSize and 3t > MaxSize, the chunker with the default
\* configuration returns exactly the 3 chunks {0,1}, {2,3}, {4,5}.
C16_S5ThreeChunksWhenForced ==
    (ChunkerReturned /\ IsS5(sentences) /\ PairsForced(sentences, cfg)) =>
        ThreePairs

C16_Witness ==
    /\ ChunkerReturned
    /\ IsS5(sentences)
    /\ PairsForced(sentences, cfg)
    /\ RawSim(sentences)[0] # RawSim(sentences)[2]
    /\ RawSim(sentences)[1] # RawSim(sentences)[3]
    /\ Len(chunks) = 3

-----------------------------------------------------------------------------
(* Properties of process (Spec) *)

Assembled == pc \notin {"fetch", "parse"}

\* C4: the sentences handed from sentence assembly to the embedding and
\* chunking stages all have token_count <= MaxSize.
C4_SentencesWithinMaxSize ==
    Assembled =>
        \A k \in 1..Len(sentences) :
            sentences[k].TokenCount <= DefaultChunkingConfig.MaxSize

\* the frames that end a sentence
EndFrames == {f \in 1..Len(frames) : EndsSentence(frames[f].Text)}

\* the k-th frame that ends a sentence
EndFrame(k) ==
    CHOOSE f \in EndFrames : Cardinality({g \in EndFrames : g <= f}) = k

\* first and last frame that contributed text to sentence m
FirstFrame(m) == IF m = 1 THEN 1 ELSE EndFrame(m - 1) + 1

LastFrame(m) ==
    IF m <= Cardinality(EndFrames) THEN EndFrame(m) ELSE Len(frames)

\* C5: for every row that process inserts, lecture_timestamp equals the
\* chunk's StartTime, which equals the StartTime of the chunk's first
\* sentence, which equals the start time of the first frame that contributed
\* text to that sentence, and it is not that frame's end time.
C5_TimestampAnchored ==
    \A r \in 1..Len(rows) :
        LET m == Offset(chunks, r) + 1
            f == FirstFrame(m)
        IN  /\ rows[r].LectureTimestamp = chunks[r].StartTime
            /\ chunks[r].StartTime = sentences[m].StartTime
            /\ sentences[m].StartTime = frames[f].StartTime
            /\ frames[f].EndTime # <<>> =>
                   rows[r].LectureTimestamp # frames[f].EndTime

C5_Witness ==
    \E r \in 1..Len(rows) :
        LET m == Offset(chunks, r) + 1 IN
        /\ FirstFrame(m) < LastFrame(m)
        /\ frames[FirstFrame(m)].StartTime # <<>>
        /\ frames[LastFrame(m)].StartTime # frames[FirstFrame(m)].StartTime
        /\ rows[r].LectureTimestamp = frames[FirstFrame(m)].StartTime

\* C6: the chunks carry ChunkIndex 0, 1, ..., K-1 in the order of their
\* position in the transcript, and the rows are inserted in ascending
\* chunk_index: the r-th insert of a job is chunk r-1.
C6_ChunksInOrder ==
    /\ \A k \in 1..Len(chunks) :
        /\ chunks[k].ChunkIndex = k - 1
        /\ chunks[k].Text = Join(TextsOf(RunOf(sentences, chunks, k)), <<" ">>)
    /\ \A r \in 1..Len(rows) :
        /\ rows[r].ChunkIndex = r - 1
        /\ rows[r].ChunkText = chunks[r].Text

C6_Witness ==
    /\ pc = "done"
    /\ procErr = ""
    /\ Len(rows) >= 2
    /\ rows[1].ChunkText # rows[2].ChunkText

\* the rows of chunks 0..n-1 of the job
RowsOf(cs, n) == [k \in 1..n |-> EmbeddingsRow(Event, cs[k])]

\* C11: if InsertEmbedding fails for the chunk at position i, process has
\* returned the error; InsertEmbedding ran for the positions 0..i and for no
\* other, and the rows of chunks 0..i-1 are in the table.
C11_InsertFailureStops ==
    procErr = "failed to insert chunk" =>
        /\ pc = "done"
        /\ Len(attempts) \in 1..Len(chunks)
        /\ attempts = [k \in 1..Len(attempts) |-> k - 1]
        /\ rows = RowsOf(chunks, Len(attempts) - 1)
        /\ table = rows

C11_Witness ==
    /\ procErr = "failed to insert chunk"
    /\ Len(chunks) = 3
    /\ Len(attempts) = 2
    /\ Len(table) = 1

\* a line of a transcript that is not subtitle text: blank, a sequence
\* number, or a time range
NotTextLine(line) ==
    \/ \A k \in 1..Len(TrimSpace(line)) : TrimSpace(line)[k] \in Digits
    \/ \E k \in 1..(Len(line) - 2) :
           line[k] = "-" /\ line[k + 1] = "-" /\ line[k + 2] = ">"

NoTextLines(text) ==
    \A k \in 1..Len(Split(text, <<"\n">>)) :
        NotTextLine(Split(text, <<"\n">>)[k])

\* C14: when the fetched transcript text is empty or has no text lines, the
\* job has 0 frames, 0 sentences and 0 chunks, hands no batch to the
\* inference engine, runs no insert, and process returns no error.
C14_EmptyTranscriptSucceeds ==
    (NoTextLines(transcriptText) /\ procErr # "failed to fetch transcript") =>
        /\ frames = <<>>
        /\ sentences = <<>>
        /\ chunks = <<>>
        /\ batches = <<>>
        /\ attempts = <<>>
        /\ table = <<>>
        /\ procErr = ""
        /\ pc \in {"fetch", "parse", "embedSentences", "chunk", "embedChunks",
                   "insert", "done"}

C14_Witness ==
    /\ NoTextLines(transcriptText)
    /\ Len(Split(transcriptText, <<"\n">>)) = 3
    /\ \E k \in 1..3 : isDigitOnly(Split(transcriptText, <<"\n">>)[k])
    /\ \E k \in 1..3 : Contains(Split(transcriptText, <<"\n">>)[k], Arrow)
    /\ pc = "done"
    /\ procErr = ""

\* C19: the configuration the driver uses when nothing is overridden (the
\* one in force when process reaches the chunker) is OptimalSize=470,
\* MaxSize=512, lambda_size=3.0, lambda_chunk=1.0 and MaxBatchTokens=12000.
C19_DefaultTunables ==
    pc = "chunk" =>
        /\ cfg.OptimalSize = 470
        /\ cfg.MaxSize = 512
        /\ cfg.LambdaSize = 3
        /\ cfg.ChunkPenalty = 1
        /\ emConfig.MaxBatchTokens = 12000

\* the text of a frame, trimmed, ends with '.', '!' or '?'
Terminated(text) ==
    LET t == TrimSpace(text) IN t # <<>> /\ t[Len(t)] \in {".", "!", "?"}

\* the frames at which a sentence is emitted: the terminated ones, and the
\* last frame
EmitFrames ==
    {f \in 1..Len(frames) : Terminated(frames[f].Text) \/ f = Len(frames)}

\* the k-th frame at which a sentence is emitted (0 for k = 0)
EmitFrame(k) ==
    IF k = 0 THEN 0
    ELSE CHOOSE f \in EmitFrames : Cardinality({g \in EmitFrames : g <= f}) = k

FrameTexts(lo, hi) == [k \in 1..(hi - lo + 1) |-> frames[lo + k - 1].Text]

-----------------------------------------------------------------------------
(* Properties of ParseSRT (SpecParse) *)

\* a string without its whitespace
RECURSIVE Squeeze(_)
Squeeze(s) ==
    IF s = <<>> THEN <<>>
    ELSE IF Head(s) \in Space \cup {"\n"} THEN Squeeze(Tail(s))
    ELSE <<Head(s)>> \o Squeeze(Tail(s))

RECURSIVE Concat(_)
Concat(q) == IF q = <<>> THEN <<>> ELSE Head(q) \o Concat(Tail(q))

\* the subtitle text lines of the blocks, in order
TextLinesOf(blocks) == Concat([k \in 1..Len(blocks) |-> blocks[k].lines])

\* C18: for an SRT text made of blocks (optional sequence number, time
\* range, one or more text lines), the Text of the frames ParseSRT returns,
\* joined in order, is the text lines of the blocks joined in order, up to
\* whitespace - whatever the text lines hold.
C18_SrtRoundTrip ==
    pc # "parse" =>
        Squeeze(Join(TextsOf(frames), <<" ">>))
            = Squeeze(Join(TextLinesOf(srtBlocks), <<" ">>))

-----------------------------------------------------------------------------
(* Properties of the poll loop (SpecLoop, SpecLoopFair) *)

HandledSet == {handled[k] : k \in 1..Len(handled)}

\* the errors process returns
ProcessErrors ==
    {"failed to fetch transcript", "failed to embed sentences",
     "failed to extract chunks", "failed to embed chunks",
     "failed to insert chunk"}

\* C12: the offset of a message for which process returned an error is not
\* committed (the committed offset stays at or below it, so the message is
\* delivered again), and every event below the committed offset is one
\* whose job completed successfully.
C12_FailedMessageNotCommitted ==
    /\ \A h \in HandledSet :
           h.err \in ProcessErrors => committed <= h.offset
    /\ \A o \in 0..(committed - 1) :
           At(bus, o) = "event" =>
               \E h \in HandledSet : h.offset = o /\ h.err = ""

\* C13: once a termination signal has been delivered while a job is in
\* progress, the job goes on through its stages until process returns (a
\* job that returns without error has run every insert); after it no poll
\* and no job is started; and the poll loop exits.
C13_SignalLetsJobFinish ==
    /\ [][(sigAt \in JobPcs /\ pc \in JobPcs) =>
              pc' \in JobPcs \cup {"done"}]_vars
    /\ []((sigAt \in JobPcs /\ pc = "done" /\ procErr = "") =>
              (rows = RowsOf(chunks, Len(chunks))
               /\ Len(attempts) = Len(chunks)))
    /\ [][(sigAt \in JobPcs /\ pc \in {"done", "loop", "exit"}) =>
              (pc' \in {"done", "loop", "exit"} /\ position' = position)]_vars
    /\ (sigAt \in JobPcs) ~> (pc = "exit")

C13_Witness ==
    /\ pc = "exit"
    /\ sigAt = "embedSentences"
    /\ handled # <<>>
    /\ handled[Len(handled)].err = ""
    /\ handled[Len(handled)].stored = 2
    /\ position < Len(bus)

\* C15: whenever a run of process completes - the first for the event, or
\* one after runs that completed or failed part-way through their inserts -
\* the embeddings table holds exactly the rows of one complete run: one row
\* per chunk, no two rows with the same key.
C15_RetryIdempotent ==
    (pc = "done" /\ procErr = "") =>
        /\ Len(table) = Len(chunks)
        /\ \A k \in 1..Len(chunks) :
               \E t \in 1..Len(table) : table[t] = EmbeddingsRow(Event, chunks[k])
        /\ \A a, b \in 1..Len(table) :
               RowKey(table[a]) = RowKey(table[b]) => a = b

C15_Witness ==
    /\ pc = "done"
    /\ procErr = ""
    /\ Len(chunks) = 2
    /\ Len(handled) = 1
    /\ handled[1].err = "failed to insert chunk"
    /\ handled[1].stored = 1

-----------------------------------------------------------------------------
(* Properties of embedBatches and EmbedSentences (SpecEmbed) *)

BatchSize(b) == b.hi - b.lo

\* largest token count among the texts of a batch
BatchMaxTokens(b) == SetMax({At(tokenLengths, k) : k \in b.lo..(b.hi - 1)})

\* C9: every batch of two or more texts has size x largest token count
\* <= MaxBatchTokens; a batch over the budget holds exactly one text whose own
\* token count exceeds MaxBatchTokens; a batch is sealed only when the next
\* text would break the budget or the input is exhausted.
C9_BatchBudget ==
    \A n \in 1..Len(batches) :
        LET b == batches[n]
            budget == emConfig.MaxBatchTokens
        IN  /\ BatchSize(b) >= 1
            /\ Len(b.texts) = BatchSize(b)
            /\ BatchSize(b) >= 2 =>
                   BatchSize(b) * BatchMaxTokens(b) <= budget
            /\ BatchSize(b) * BatchMaxTokens(b) > budget =>
                   /\ BatchSize(b) = 1
                   /\ At(tokenLengths, b.lo) > budget
            /\ \/ b.hi = Len(texts)
               \/ (BatchSize(b) + 1)
                      * Max(BatchMaxTokens(b), At(tokenLengths, b.hi)) > budget

C9_Witness ==
    /\ pc = "chunk"
    /\ Len(batches) = 2
    /\ BatchSize(batches[1]) = 2
    /\ BatchSize(batches[1]) * BatchMaxTokens(batches[1])
           = emConfig.MaxBatchTokens
    /\ BatchSize(batches[2]) = 1
    /\ BatchMaxTokens(batches[2]) > emConfig.MaxBatchTokens

\* C10: the batches are consecutive non-empty runs of the input whose
\* concatenation is the input; on success there is one vector per text, in
\* input order, and item k gets the vector computed for its own text.
C10_BatchesPreserveOrder ==
    /\ \A n \in 1..Len(batches) :
        /\ batches[n].lo = (IF n = 1 THEN 0 ELSE batches[n - 1].hi)
        /\ batches[n].hi > batches[n].lo
        /\ batches[n].texts = SubSeq(texts, batches[n].lo + 1, batches[n].hi)
    /\ pc = "batch" =>
        /\ i = (IF batches = <<>> THEN 0 ELSE batches[Len(batches)].hi)
        /\ allEmbeddings = [k \in 1..i |-> Infer(texts[k])]
    /\ (pc = "chunk" /\ Len(sentences) > 0) =>
        /\ batches[Len(batches)].hi = Len(texts)
        /\ texts = TextsOf(sentences)
        /\ Len(allEmbeddings) = Len(texts)
        /\ \A k \in 1..Len(sentences) :
            sentences[k].Embedding = Infer(sentences[k].Text)

C10_Witness ==
    /\ pc = "chunk"
    /\ Len(sentences) = 3
    /\ Len(batches) = 2
    /\ sentences[1].Embedding = <<1, 0>>
    /\ sentences[2].Embedding = <<3, 4>>
    /\ sentences[3].Embedding = <<0, 1>>

\* ---- claims about ParseSRT and malformed time ranges (SpecRanges) ----

TimeStamps == {<<Stamps[k]>> : k \in 1..Len(Stamps)}

\* exactly one "-->" with a time stamp on either side
WellFormedRange(line) ==
    LET parts == Split(line, Arrow) IN
    /\ Len(parts) = 2
    /\ TrimSpace(parts[1]) \in TimeStamps
    /\ TrimSpace(parts[2]) \in TimeStamps

\* the frames the claim describes: a line holding "-->" sets the current
\* times only when it is a well-formed range and never becomes a frame
RECURSIVE RangeFrames(_, _)
RangeFrames(st, lines) ==
    IF lines = <<>> THEN st.frames
    ELSE LET line == TrimSpace(Head(lines)) IN
         RangeFrames(
            IF line = <<>> \/ isDigitOnly(line) THEN st
            ELSE IF Contains(line, Arrow) THEN
                IF WellFormedRange(line)
                THEN LET parts == Split(line, Arrow) IN
                     [st EXCEPT !.currentStartTime = TrimSpace(parts[1]),
                                !.currentEndTime = TrimSpace(parts[2])]
                ELSE st
            ELSE [st EXCEPT !.frames =
                    Append(@, Frame(line, st.currentStartTime,
                                    st.currentEndTime))],
            Tail(lines))

\* C21: a line holding "-->" that is no well-formed time range (more than
\* one "-->", an empty half, a half that is no time stamp) leaves the
\* current start and end time alone, so every later frame carries the last
\* valid time range, and the line itself is no frame
C21_MalformedRangeSkipped ==
    pc = "embedSentences" =>
        frames = RangeFrames([frames |-> <<>>, currentStartTime |-> <<>>,
                              currentEndTime |-> <<>>],
                             Split(transcriptText, <<"\n">>))

\* ---- claims about the size penalty and the segment reward (SpecChunker) ----

\* the segments [lo, hi) of the sentences handed to the chunker
AllSegments ==
    {q \in (0..Len(sentences)) \X (0..Len(sentences)) : q[1] < q[2]}

\* token total of the segment [q[1], q[2])
TokensIn(q) == SumSeq([k \in 1..(q[2] - q[1]) |->
                          sentences[q[1] + k].TokenCount])

PenaltyOf(q) == ComputePenalty(cfg, q[1], q[2], PrefixTokens(sentences))

NormSim == Normalize(RawSim(sentences))

\* sim[lo] + ... + sim[hi], 0 for an empty range
RECURSIVE SimSum(_, _, _)
SimSum(sim, lo, hi) ==
    IF lo > hi THEN 0 ELSE sim[lo] + SimSum(sim, lo + 1, hi)

RewardOf(q) ==
    SegmentReward(q[1], q[2], PrefixSim(NormSim, Len(sentences)))

C24_NormalizedInUnitRange ==
    (ChunkerReturned /\ ChunkerPrecondition) =>
        LET raw == RawSim(sentences)
            den == SimDen(raw)
        IN  /\ \A k \in DOMAIN raw :
                /\ 0 <= NormSim[k] /\ NormSim[k] <= den
                /\ SimRange(raw) # 0 =>
                      /\ raw[k] = SetMin(Range(raw)) => NormSim[k] = 0
                      /\ raw[k] = SetMax(Range(raw)) => NormSim[k] = den
                /\ SimRange(raw) = 0 => 2 * NormSim[k] = den
            /\ \A q \in AllSegments : RewardOf(q) >= 0

\* the chunker normalized three different similarities: one became 0, one
\* 1 and one lies strictly between
C24_Witness ==
    /\ ChunkerReturned
    /\ ChunkerPrecondition
    /\ dp # <<>>
    /\ SimRange(RawSim(sentences)) # 0
    /\ \E k \in DOMAIN NormSim : NormSim[k] = 0
    /\ \E k \in DOMAIN NormSim : NormSim[k] = SimDen(RawSim(sentences))
    /\ \E k \in DOMAIN NormSim :
          0 < NormSim[k] /\ NormSim[k] < SimDen(RawSim(sentences))


\* ---- claims about EmbedSentences and embedBatches (SpecEmbed) ----

InEmbedCall == pc \in {"embedSentences", "embedChunks", "batch"}

\* C25: a step of EmbedSentences / EmbedChunks that does not end the call
\* with success leaves the Embedding of every sentence and chunk as it was;
\* a failing batch ends the call with an error, whatever batches succeeded
\* before; embeddings are assigned only by the step that follows the
\* success of every batch.
C25_EmbedAllOrNothing ==
    [][InEmbedCall =>
        /\ pc' \in {"batch", "done"} =>
              sentences' = sentences /\ chunks' = chunks
        /\ pc' = "done" => procErr' = EmbedFailure
        /\ (sentences' # sentences \/ chunks' # chunks) =>
              /\ pc = "batch"
              /\ i = Len(texts)
              /\ Len(allEmbeddings) = Len(texts)
              /\ procErr' = ""
              /\ pc' = AfterEmbed]_vars

\* the call failed in its second batch, after a first batch that succeeded,
\* and no sentence has an embedding
C25_Witness ==
    /\ pc = "done"
    /\ procErr = "failed to embed sentences"
    /\ Len(batches) = 2
    /\ batches[1].hi >= 1
    /\ Len(sentences) = 3
    /\ \A k \in 1..Len(sentences) : sentences[k].Embedding = Nil


\* ---- claims about the chunks the DP returns (SpecChunker) ----

\* C26: with ChunkPenalty > 0 and n >= 2 embedded sentences each within
\* MaxSize, every two adjacent chunks of the output hold more than
\* OptimalSize tokens together; when all sentences together hold at most
\* OptimalSize tokens the output is one chunk of all n sentences.
C26_NoMergeableNeighbours ==
    (ChunkerReturned /\ ChunkerPrecondition /\ cfg.ChunkPenalty > 0) =>
        /\ chunkErr = NoErr
        /\ \A k \in 1..(Len(chunks) - 1) :
              chunks[k].TokenCount + chunks[k + 1].TokenCount
                  > cfg.OptimalSize
        /\ TokensIn(<<0, Len(sentences)>>) <= cfg.OptimalSize =>
              /\ Len(chunks) = 1
              /\ chunks[1].NumSentences = Len(sentences)

\* four sentences that fit no single chunk came back as two chunks or more,
\* one of them of several sentences
C26_Witness ==
    /\ ChunkerReturned
    /\ ChunkerPrecondition
    /\ cfg.ChunkPenalty > 0
    /\ Len(sentences) = 4
    /\ Len(chunks) >= 2
    /\ \E k \in 1..Len(chunks) : chunks[k].NumSentences >= 2
    /\ SimRange(RawSim(sentences)) # 0


\* C27: whatever the token counts (0 and counts over MaxBatchTokens
\* included), every batch of the packing loop holds at least one text,
\* every outer iteration moves the index forward, there are never more
\* batches than texts, and the call of EmbedSentences ends.
C27_PackingTerminates ==
    /\ [](/\ Len(batches) <= Len(texts)
          /\ \A n \in 1..Len(batches) : batches[n].hi > batches[n].lo)
    /\ [][(pc = "batch" /\ i < Len(texts)) =>
             /\ i' > i
             /\ i' <= Len(texts)
             /\ Len(batches') = Len(batches) + 1]_vars
    /\ <>(~InEmbedCall)

\* three texts took three batches: one text has 0 tokens and one has more
\* than MaxBatchTokens
C27_Witness ==
    /\ pc = "chunk"
    /\ Len(texts) = 3
    /\ Len(batches) = 3
    /\ \E k \in 1..3 : tokenLengths[k] = 0
    /\ \E k \in 1..3 : tokenLengths[k] > emConfig.MaxBatchTokens


\* ---- claims about AddLecture (SpecWatchers) ----

\* number of elements of the queue that hold a lecture with this URL
Pushed(url) == Cardinality({k \in 1..Len(queue) : queue[k].json.URL = url})

\* number of AddLecture calls for this URL that returned true
ReturnedTrue(url) ==
    Cardinality({k \in 1..Len(calls) : calls[k].url = url /\ calls[k].added})

NoCallInProgress == \A w \in Watchers : watcherPc[w] = "IsSeen"

\* C28: over every interleaving of the AddLecture calls of the watchers,
\* every URL is pushed to the queue at most once, and AddLecture returns
\* true for the one call that pushed the URL and false for every other call
\* with that URL.
C28_QueuedAtMostOnce ==
    \A url \in LectureURLs :
        /\ Pushed(url) <= 1
        /\ ReturnedTrue(url) <= 1
        /\ NoCallInProgress => ReturnedTrue(url) = Pushed(url)

\* C29: when no AddLecture call is in progress, a URL is in the seen set
\* exactly if a lecture with that URL has been pushed to the queue; a call
\* that failed part-way has changed neither.
C29_SeenMatchesQueue ==
    NoCallInProgress => seen = {queue[k].json.URL : k \in 1..Len(queue)}


\* ---- claims about updateParsers (SpecParsers) ----

\* the ".py" files of a directory, each with its code
PyFiles(dir) ==
    {[name |-> e.name, code |-> e.code] :
        e \in {d \in dir.entries : ~d.isDir /\ HasSuffix(d.name, PySuffix)}}

\* C30: after a call of updateParsers whose fetch succeeded and in which no
\* file operation failed, the ".py" files of the parsers directory are
\* exactly the files of the parsers fetched, each with the code fetched
\* (all are deleted when no parser was fetched); after a call whose fetch
\* failed, the directory is as the call found it.
C30_ParsersInSync ==
    /\ (lastUpdate.ran /\ lastUpdate.fetched /\ ~lastUpdate.failed) =>
          PyFiles(parsersDir) =
              {[name |-> FileName(p), code |-> p.CodeText] :
                  p \in lastUpdate.parsers}
    /\ (lastUpdate.ran /\ ~lastUpdate.fetched) =>
          parsersDir = lastUpdate.before

\* a call found the file of a deleted parser and the file of parser a with
\* old code, fetched parser a with new code, and no file operation failed
C30_Witness ==
    /\ lastUpdate.ran
    /\ lastUpdate.fetched
    /\ ~lastUpdate.failed
    /\ lastUpdate.parsers = {Parser(<<"a">>, <<"v2">>)}
    /\ DirEntry(<<"old", ".py">>, FALSE, <<"v1">>) \in lastUpdate.before.entries
    /\ DirEntry(<<"a", ".py">>, FALSE, <<"v1">>) \in lastUpdate.before.entries
    /\ DirEntry(<<"notes", ".txt">>, FALSE, <<"v1">>) \in parsersDir.entries
    /\ DirEntry(<<"b", ".py">>, TRUE, <<>>) \in parsersDir.entries

=============================================================================
